---- MODULE Spec2Model ----
(***************************************************************************)
(* A model of yash-rs: the Parser's one-token lookahead slot and its two   *)
(* here-document queues, the alias-substitution combinators finish and     *)
(* Rec::zip (src/src/parser/core.rs), the Expansion sinks and the Output   *)
(* with its quote guards (yash-semantics/src/expansion.rs), pathname       *)
(* expansion and its iterator (yash-semantics/src/expansion/glob.rs), the  *)
(* character lexer and its operators (src/src/parser/lex/op.rs), the       *)
(* read-eval loop (yash-semantics/src/runner.rs), the TrapSet              *)
(* (yash-env/src/trap.rs), the execution context stack and its guards      *)
(* (yash-env/src/stack.rs), simple commands                                *)
(* (yash-semantics/src/command_impl/simple_command.rs) and the kill        *)
(* built-in (yash-builtin/src/kill/send.rs).                               *)
(***************************************************************************)
EXTENDS Integers, Sequences, FiniteSets, TLC

\* ------------------------------------------------------------------ bounds

\* Number of physical lines the input source holds at most.
MaxLines == 3
\* Number of memorize_unread_here_doc calls in one run at most.
MaxHereDocs == 2
\* Number of leading AliasSubstituted results of a parsing step at most.
MaxAlias == 3
\* Number of characters pushed to an Expansion sink at most.
MaxPush == 3
\* Number of fields of a multi-field sink at most.
MaxFields == 2
\* Number of nested quote guards at most.
MaxDepth == 2
\* Number of entries the scanned directory holds at most.
MaxEntries == 2
\* Number of chunks the input producer of the character lexer yields at most.
MaxChunks == 2
\* Number of peek, next and operator calls on the character lexer at most.
MaxCalls == 3
\* Number of command lines the read-eval loop's input holds at most.
MaxCommandLines == 2
\* Number of TrapSet calls in one run at most.
MaxTrapCalls == 4
\* Number of calls of next on the iterator of one glob at most.
MaxNextCalls == 4
\* Number of frame guards live at the same time at most.
MaxGuards == 2
\* Number of pushes and releases on the stack at most.
MaxStackCalls == 4
\* Number of simple commands executed in one shell at most.
MaxCmdCalls == 3
\* Number of targets of one kill command at most.
MaxTargets == 2

\* ------------------------------------------------------------- the lexer

VARIABLES
    input,             \* Lexer: all characters of the source code
    index,             \* Lexer: 1-based position of the next character
    token,             \* Parser.token: Option<Result<Token>>
    unread_here_docs,  \* Parser.unread_here_docs: Vec<PartialHereDoc>
    read_here_docs,    \* Parser.read_here_docs: Vec<HereDoc>
    panicked,          \* TRUE once an assertion has aborted the program
    last,              \* the last Parser operation and what it returned
    nextId,            \* identity of the next PartialHereDoc object created
    takenIds,          \* identities of the HereDocs returned by earlier takes
    recOp,             \* the combinator being run: "finish", "zip" or "none"
    zipSelf,           \* Rec::zip: the Rec value it is called on
    fAlias,            \* the step f: number of leading AliasSubstituted results
    fFinal,            \* the step f: its result after those
    fCalls,            \* number of calls of f so far
    recPc,             \* "run", "finish" (the loop inside zip) or "done"
    recResult,         \* what the combinator returned
    sinkKind,          \* the Expansion implementor: "field" or "fields"
    inner,             \* the sink: Vec<AttrChar> or Vec<Vec<AttrChar>>
    outputLive,        \* TRUE while an Output borrows the sink
    is_quoted,         \* Output.is_quoted
    guards,            \* the live QuotedOutput guards, outermost first
    pushLog,           \* per character pushed: the flag asked for, the depth
    expLast,           \* the last operation on the sink or the Output
    gDir,              \* the entry names of the directory, in scan order
    gIdx,              \* number of entries dir.next has yielded so far
    gField,            \* glob: the AttrField it was called with
    gPc,               \* glob: "idle", "scan", "done" or "panicked"
    gPaths,            \* glob: the local Vec<Field> paths
    gResult,           \* the Fields the returned Glob iterator yields
    gInner,            \* Glob.inner: the iterator's kind and what it holds
    gNext,             \* what each call of Glob::next so far has returned
    gDirCalls,         \* number of opendir and dir.next calls so far
    gErr,              \* the system call that failed: "opendir", "next"
    lx,                \* the character lexer: producer, buffer, position, latch
    lxCalls,           \* number of calls on the character lexer so far
    lxLast,            \* the last call on the character lexer and its result
    rInteractive,      \* read_eval_loop_impl: is_interactive
    rLines,            \* what command_line returns for the lines not parsed yet
    rLine,             \* number of the command line parsed last
    rPc,               \* the loop is at: "parse", "traps", "execute", "returned"
    rExecuted,         \* read_eval_loop_impl: executed
    rExitStatus,       \* env.exit_status
    rResult,           \* what the loop returned, if it has
    rLog,              \* what the loop has done so far, in order
    initial_sigchld,   \* TrapSet.initial_sigchld
    sigchld,           \* the system's handling of SIGCHLD
    tOriginal,         \* the handling of SIGCHLD before any TrapSet call
    tCalls,            \* number of TrapSet calls so far
    tLast,             \* the last TrapSet call: its result, its system calls,
                       \* and the number of enable calls that have succeeded
    sInner,            \* Stack.inner: the frames, the innermost one last
    sGuards,           \* the live guards, the innermost one last
    sInitial,          \* the stack before any push
    sPanicked,         \* an unwrap on an empty stack has panicked
    sCalls,            \* number of pushes and releases so far
    sLast,             \* the last push or release and the frame it returned
    cExitStatus,       \* env.exit_status of the shell running the command
    cPrinted,          \* number of error messages the shell has printed
    cCalls,            \* number of simple commands executed so far
    cLast,             \* the last simple command: its target, what the
                       \* system did and the result of execute
    kTargets,          \* kill: the targets execute was called with
    kPc,               \* kill: "idle", "loop" or "done"
    kSends,            \* kill: the calls of send so far and their results
    kKills,            \* kill: the process IDs passed to System::kill so far
    kErrors,           \* kill: the local Vec errors
    kReport,           \* kill: the message given to report_failure, if any
    kResult            \* kill: the result of execute

parserVars == <<input, index, token, unread_here_docs, read_here_docs,
                panicked, last, nextId, takenIds>>

recVars == <<recOp, zipSelf, fAlias, fFinal, fCalls, recPc, recResult>>

expVars == <<sinkKind, inner, outputLive, is_quoted, guards, pushLog, expLast>>

globVars == <<gDir, gIdx, gField, gPc, gPaths, gResult, gDirCalls, gErr,
              gInner, gNext>>

lexVars == <<lx, lxCalls, lxLast>>

runVars == <<rInteractive, rLines, rLine, rPc, rExecuted, rExitStatus,
             rResult, rLog>>

trapVars == <<initial_sigchld, sigchld, tOriginal, tCalls, tLast>>

stackVars == <<sInner, sGuards, sInitial, sPanicked, sCalls, sLast>>

cmdVars == <<cExitStatus, cPrinted, cCalls, cLast>>

killVars == <<kTargets, kPc, kSends, kKills, kErrors, kReport, kResult>>

nonParserVars == <<recVars, expVars, globVars, lexVars, runVars, trapVars,
    stackVars,
    cmdVars,
    killVars>>

nonRecVars == <<parserVars, expVars, globVars, lexVars, runVars, trapVars,
    stackVars,
    cmdVars,
    killVars>>

nonExpVars == <<parserVars, recVars, globVars, lexVars, runVars, trapVars,
    stackVars,
    cmdVars,
    killVars>>

nonGlobVars == <<parserVars, recVars, expVars, lexVars, runVars, trapVars,
    stackVars,
    cmdVars,
    killVars>>

nonLexVars == <<parserVars, recVars, expVars, globVars, runVars, trapVars,
    stackVars,
    cmdVars,
    killVars>>

nonRunVars == <<parserVars, recVars, expVars, globVars, lexVars, trapVars,
    stackVars,
    cmdVars,
    killVars>>

nonTrapVars == <<parserVars, recVars, expVars, globVars, lexVars, runVars,
    stackVars,
    cmdVars,
    killVars>>

nonStackVars == <<parserVars, recVars, expVars, globVars, lexVars, runVars, trapVars,
    cmdVars,
    killVars>>

nonCmdVars == <<parserVars, recVars, expVars, globVars, lexVars, runVars, trapVars,
    stackVars,
    killVars>>

nonKillVars == <<parserVars, recVars, expVars, globVars, lexVars, runVars, trapVars,
    stackVars,
    cmdVars>>

vars == <<parserVars, recVars, expVars, globVars, lexVars, runVars, trapVars,
    stackVars,
    cmdVars,
    killVars>>

NL == "NL"
None == [some |-> FALSE]
Some(x) == [some |-> TRUE, value |-> x]
Ok(x) == [ok |-> TRUE, value |-> x]
Err(e) == [ok |-> FALSE, error |-> e]

\* The text of one physical line, without its newline.
LineTexts == { <<"D">>, <<"E">>, <<" ", "#">> }

RECURSIVE Concat(_)
Concat(lines) ==
    IF lines = <<>> THEN <<>>
    ELSE Head(lines) \o <<NL>> \o Concat(Tail(lines))

\* The sources the lexer may read: up to MaxLines whole lines.
Inputs == { Concat(ls) : ls \in UNION { [1..n -> LineTexts] : n \in 0..MaxLines } }

Min(S) == CHOOSE x \in S : \A y \in S : x <= y

\* Location of the character at position i: 1-based line and column.
Location(i) ==
    LET before == { j \in 1..(i - 1) : j <= Len(input) /\ input[j] = NL }
        lastNl == IF before = {} THEN 0
                  ELSE CHOOSE j \in before : \A k \in before : k <= j
    IN [line |-> Cardinality(before) + 1, column |-> i - lastNl]

EndOfInput(i) == [cause |-> "EndOfInput", location |-> Location(i)]

IsBlank(c) == c = " "
IsWordChar(c) == c \notin {" ", NL}

\* Lexer::skip_blanks_and_comment: the position after blanks and a comment.
RECURSIVE SkipBlanks(_)
SkipBlanks(i) ==
    IF i <= Len(input) /\ IsBlank(input[i]) THEN SkipBlanks(i + 1) ELSE i

RECURSIVE SkipComment(_)
SkipComment(i) ==
    IF i <= Len(input) /\ input[i] # NL THEN SkipComment(i + 1) ELSE i

SkipBlanksAndComment(i) ==
    LET j == SkipBlanks(i)
    IN IF j <= Len(input) /\ input[j] = "#" THEN SkipComment(j) ELSE j

RECURSIVE WordEnd(_)
WordEnd(i) ==
    IF i <= Len(input) /\ IsWordChar(input[i]) THEN WordEnd(i + 1) ELSE i

\* Lexer::token at position i: the result and the position after it.
LexerToken(i) ==
    IF i > Len(input) THEN [result |-> Err(EndOfInput(i)), index |-> i]
    ELSE IF input[i] = NL
    THEN [result |-> Ok([id |-> "Newline", text |-> <<NL>>,
                         location |-> Location(i)]),
          index |-> i + 1]
    ELSE [result |-> Ok([id |-> "Word", text |-> SubSeq(input, i, WordEnd(i) - 1),
                         location |-> Location(i)]),
          index |-> WordEnd(i)]

\* Position of the newline that ends the line starting at i, or 0.
LineEnd(i) ==
    LET S == { j \in i..Len(input) : input[j] = NL }
    IN IF S = {} THEN 0 ELSE Min(S)

\* Lexer::here_doc_content: the lines from position i up to the delimiter line.
RECURSIVE ReadContent(_, _, _)
ReadContent(i, partial, acc) ==
    LET e == LineEnd(i)
    IN IF e = 0
       THEN [result |-> Err(EndOfInput(Len(input) + 1)), index |-> Len(input) + 1]
       ELSE IF SubSeq(input, i, e - 1) = partial.delimiter.text
       THEN [result |-> Ok([delimiter |-> partial.delimiter,
                            remove_tabs |-> partial.remove_tabs,
                            content |-> acc,
                            id |-> partial.id]),
             index |-> e + 1]
       ELSE ReadContent(e + 1, partial, acc \o SubSeq(input, i, e))

LexerHereDocContent(i, partial) == ReadContent(i, partial, <<>>)

\* ------------------------------------------------------------ the parser

\* The partial here-documents a caller may memorize (without identity).
Delimiters ==
    { [text |-> <<"D">>, location |-> [line |-> 1, column |-> 4]],
      [text |-> <<"E">>, location |-> [line |-> 1, column |-> 9]] }

PartialHereDocs ==
    { [delimiter |-> d, remove_tabs |-> (d.location.column = 9)] : d \in Delimiters }

NoOp == [op |-> "new", result |-> "Ok", value |-> <<>>, requests |-> 0]

\* Parser::new on a lexer that reads the source code src.
ParserNew(src) ==
    /\ input = src
    /\ index = 1
    /\ token = None
    /\ unread_here_docs = <<>>
    /\ read_here_docs = <<>>
    /\ panicked = FALSE
    /\ last = NoOp
    /\ nextId = 1
    /\ takenIds = {}

\* require_token without the test of the slot: every call asks the lexer.
RequireToken_Always ==
    LET t == LexerToken(SkipBlanksAndComment(index))
    IN [token |-> Some(t.result), index |-> t.index, requests |-> 1]

\* Parser::require_token: the slot and the lexer position afterwards, and the
\* number of tokens requested from the lexer.
RequireToken ==
    IF ~token.some
    THEN LET t == LexerToken(SkipBlanksAndComment(index))
         IN [token |-> Some(t.result), index |-> t.index, requests |-> 1]
    ELSE [token |-> token, index |-> index, requests |-> 0]

\* Parser::peek_token
PeekToken ==
    /\ ~panicked
    /\ LET r == RequireToken
       IN /\ token' = r.token
          /\ index' = r.index
          /\ last' = [op |-> "peek_token",
                      result |-> IF r.token.value.ok THEN "Ok" ELSE "Err",
                      value |-> r.token.value,
                      requests |-> r.requests]
    /\ UNCHANGED <<input, unread_here_docs, read_here_docs, panicked, nextId,
                   takenIds, nonParserVars>>

\* Parser::take_token
TakeToken ==
    /\ ~panicked
    /\ LET r == RequireToken
       IN /\ token' = None
          /\ index' = r.index
          /\ last' = [op |-> "take_token",
                      result |-> IF r.token.value.ok THEN "Ok" ELSE "Err",
                      value |-> r.token.value,
                      requests |-> r.requests]
    /\ UNCHANGED <<input, unread_here_docs, read_here_docs, panicked, nextId,
                   takenIds, nonParserVars>>

\* Parser::memorize_unread_here_doc
MemorizeUnreadHereDoc(here_doc) ==
    /\ ~panicked
    /\ nextId <= MaxHereDocs
    /\ unread_here_docs' =
          Append(unread_here_docs,
                 [delimiter |-> here_doc.delimiter,
                  remove_tabs |-> here_doc.remove_tabs,
                  id |-> nextId])
    /\ nextId' = nextId + 1
    /\ last' = [op |-> "memorize_unread_here_doc", result |-> "Ok",
                value |-> <<>>, requests |-> 0]
    /\ UNCHANGED <<input, index, token, read_here_docs, panicked, takenIds, nonParserVars>>

\* The loop taking the partial here-documents from the back of the queue.
RECURSIVE DrainLoop_Reversed(_, _, _)
DrainLoop_Reversed(unread, read, i) ==
    IF unread = <<>>
    THEN [ok |-> TRUE, read |-> read, index |-> i, error |-> <<>>]
    ELSE LET r == LexerHereDocContent(i, unread[Len(unread)])
         IN IF r.result.ok
            THEN DrainLoop_Reversed(SubSeq(unread, 1, Len(unread) - 1),
                                    Append(read, r.result.value), r.index)
            ELSE [ok |-> FALSE, read |-> read, index |-> r.index,
                  error |-> r.result.error]

\* The loop of Parser::here_doc_contents: each drained partial here-document
\* is read by the lexer and pushed; an error returns at once, and the drain
\* drops what was not reached.
RECURSIVE DrainLoop(_, _, _)
DrainLoop(unread, read, i) ==
    IF unread = <<>>
    THEN [ok |-> TRUE, read |-> read, index |-> i, error |-> <<>>]
    ELSE LET r == LexerHereDocContent(i, Head(unread))
         IN IF r.result.ok
            THEN DrainLoop(Tail(unread), Append(read, r.result.value), r.index)
            ELSE [ok |-> FALSE, read |-> read, index |-> r.index,
                  error |-> r.result.error]

\* here_doc_contents without its assertion.
HereDocContents_NoAssert ==
    /\ ~panicked
    /\ LET r == DrainLoop(unread_here_docs, read_here_docs, index)
       IN /\ read_here_docs' = r.read
          /\ unread_here_docs' = <<>>
          /\ index' = r.index
          /\ last' = [op |-> "here_doc_contents",
                      result |-> IF r.ok THEN "Ok" ELSE "Err",
                      value |-> r.error, requests |-> 0]
    /\ UNCHANGED <<input, token, panicked, nextId, takenIds, nonParserVars>>

\* here_doc_contents allocating a new read queue instead of reserving space.
HereDocContents_NewQueue ==
    /\ ~panicked
    /\ IF token.some
       THEN /\ panicked' = TRUE
            /\ last' = [op |-> "here_doc_contents", result |-> "Panic",
                        value |-> <<>>, requests |-> 0]
            /\ UNCHANGED <<index, unread_here_docs, read_here_docs>>
       ELSE LET r == DrainLoop(unread_here_docs, <<>>, index)
            IN /\ read_here_docs' = r.read
               /\ unread_here_docs' = <<>>
               /\ index' = r.index
               /\ last' = [op |-> "here_doc_contents",
                           result |-> IF r.ok THEN "Ok" ELSE "Err",
                           value |-> r.error, requests |-> 0]
               /\ UNCHANGED panicked
    /\ UNCHANGED <<input, token, nextId, takenIds, nonParserVars>>

\* The entries a failing loop has not reached.
RECURSIVE DrainRest(_, _)
DrainRest(unread, i) ==
    IF unread = <<>>
    THEN <<>>
    ELSE LET r == LexerHereDocContent(i, Head(unread))
         IN IF r.result.ok
            THEN DrainRest(Tail(unread), r.index)
            ELSE Tail(unread)

\* here_doc_contents leaving the entries it has not reached in the queue.
HereDocContents_KeepsRest ==
    /\ ~panicked
    /\ IF token.some
       THEN /\ panicked' = TRUE
            /\ last' = [op |-> "here_doc_contents", result |-> "Panic",
                        value |-> <<>>, requests |-> 0]
            /\ UNCHANGED <<index, unread_here_docs, read_here_docs>>
       ELSE LET r == DrainLoop(unread_here_docs, read_here_docs, index)
            IN /\ read_here_docs' = r.read
               /\ unread_here_docs' = DrainRest(unread_here_docs, index)
               /\ index' = r.index
               /\ last' = [op |-> "here_doc_contents",
                           result |-> IF r.ok THEN "Ok" ELSE "Err",
                           value |-> r.error, requests |-> 0]
               /\ UNCHANGED panicked
    /\ UNCHANGED <<input, token, nextId, takenIds, nonParserVars>>

\* Parser::here_doc_contents
HereDocContents ==
    /\ ~panicked
    /\ IF token.some
       THEN /\ panicked' = TRUE
            /\ last' = [op |-> "here_doc_contents", result |-> "Panic",
                        value |-> <<>>, requests |-> 0]
            /\ UNCHANGED <<index, unread_here_docs, read_here_docs>>
       ELSE LET r == DrainLoop(unread_here_docs, read_here_docs, index)
            IN /\ read_here_docs' = r.read
               /\ unread_here_docs' = <<>>
               /\ index' = r.index
               /\ last' = [op |-> "here_doc_contents",
                           result |-> IF r.ok THEN "Ok" ELSE "Err",
                           value |-> r.error, requests |-> 0]
               /\ UNCHANGED panicked
    /\ UNCHANGED <<input, token, nextId, takenIds, nonParserVars>>

\* ensure_no_unread_here_doc reporting the last entry of the queue.
EnsureResult_Last ==
    IF unread_here_docs = <<>>
    THEN Ok(<<>>)
    ELSE Err([cause |-> "MissingHereDocContent",
              location |->
                  unread_here_docs[Len(unread_here_docs)].delimiter.location])

\* Parser::ensure_no_unread_here_doc: the value it returns.
EnsureResult ==
    IF unread_here_docs = <<>>
    THEN Ok(<<>>)
    ELSE Err([cause |-> "MissingHereDocContent",
              location |-> unread_here_docs[1].delimiter.location])

\* Parser::ensure_no_unread_here_doc
EnsureNoUnreadHereDoc ==
    /\ ~panicked
    /\ last' = [op |-> "ensure_no_unread_here_doc",
                result |-> IF EnsureResult.ok THEN "Ok" ELSE "Err",
                value |-> EnsureResult, requests |-> 0]
    /\ UNCHANGED <<input, index, token, unread_here_docs, read_here_docs,
                   panicked, nextId, takenIds, nonParserVars>>

\* take_read_here_docs returning a copy and leaving the queue as it is.
TakeRead_Clone == [returned |-> read_here_docs, left |-> read_here_docs]

\* Parser::take_read_here_docs: the list it returns and the list it leaves.
TakeRead == [returned |-> read_here_docs, left |-> <<>>]

Ids(docs) == { docs[i].id : i \in 1..Len(docs) }

\* Parser::take_read_here_docs
TakeReadHereDocs ==
    /\ ~panicked
    /\ read_here_docs' = TakeRead.left
    /\ takenIds' = takenIds \cup Ids(TakeRead.returned)
    /\ last' = [op |-> "take_read_here_docs", result |-> "Ok",
                value |-> TakeRead.returned, requests |-> 0]
    /\ UNCHANGED <<input, index, token, unread_here_docs, panicked, nextId,
                   nonParserVars>>

NextParser ==
    \/ PeekToken
    \/ TakeToken
    \/ \E here_doc \in PartialHereDocs : MemorizeUnreadHereDoc(here_doc)
    \/ HereDocContents
    \/ EnsureNoUnreadHereDoc
    \/ TakeReadHereDocs

\* ------------------------------------------------- Rec, finish and zip

AliasSubstituted == [tag |-> "AliasSubstituted"]
Empty(t) == [tag |-> "Empty", value |-> t]
NonEmpty(t) == [tag |-> "NonEmpty", value |-> t]

\* The values a parsing step may produce.
Values == {"v1", "v2"}
Recs == {AliasSubstituted} \cup { Empty(t) : t \in Values }
                           \cup { NonEmpty(t) : t \in Values }
\* What the step f returns once it no longer returns AliasSubstituted.
Finals == { Ok(r) : r \in Recs \ {AliasSubstituted} } \cup { Err("e") }

\* The result of the n-th call of the step f.
F(n) == IF n <= fAlias THEN Ok(AliasSubstituted) ELSE fFinal

RecIdle ==
    /\ recOp = "none"
    /\ zipSelf = AliasSubstituted
    /\ fAlias = 0
    /\ fFinal = Err("e")
    /\ fCalls = 0
    /\ recPc = "done"
    /\ recResult = <<>>

InitRec ==
    /\ recOp \in {"finish", "zip"}
    /\ zipSelf \in IF recOp = "zip" THEN Recs ELSE {AliasSubstituted}
    /\ fAlias \in 0..MaxAlias
    /\ fFinal \in Finals
    /\ fCalls = 0
    /\ recPc = "run"
    /\ recResult = <<>>

\* The loop of finish returning on NonEmpty only.
FinishIteration_NonEmptyOnly(r) ==
    IF ~r.ok THEN [done |-> TRUE, result |-> r]
    ELSE IF r.value.tag = "NonEmpty"
    THEN [done |-> TRUE, result |-> Ok(r.value.value)]
    ELSE [done |-> FALSE, result |-> <<>>]

\* One iteration of the loop of finish on the result r of f: whether the
\* loop returns, and what.
FinishIteration(r) ==
    IF ~r.ok THEN [done |-> TRUE, result |-> r]
    ELSE IF r.value.tag \in {"Empty", "NonEmpty"}
    THEN [done |-> TRUE, result |-> Ok(r.value.value)]
    ELSE [done |-> FALSE, result |-> <<>>]

\* finish: one call of f and the test of its result.
FinishCall ==
    /\ recOp = "finish"
    /\ recPc = "run"
    /\ fCalls <= MaxAlias + 1
    /\ LET it == FinishIteration(F(fCalls + 1))
       IN /\ fCalls' = fCalls + 1
          /\ recPc' = IF it.done THEN "done" ELSE "run"
          /\ recResult' = it.result
    /\ UNCHANGED <<recOp, zipSelf, fAlias, fFinal, nonRecVars>>

\* The arm of AliasSubstituted calling f before it returns.
ZipAliasSubstituted_CallsF ==
    [pc |-> "done", result |-> Ok(AliasSubstituted), calls |-> fCalls + 1]

\* Rec::zip, the arm of AliasSubstituted.
ZipAliasSubstituted ==
    [pc |-> "done", result |-> Ok(AliasSubstituted), calls |-> fCalls]

\* The arm of Empty(t) marking every success as NonEmpty.
ZipEmpty_MarksNonEmpty(t) ==
    LET r == F(fCalls + 1)
    IN [pc |-> "done",
        result |-> IF ~r.ok THEN r
                   ELSE IF r.value.tag = "AliasSubstituted"
                   THEN Ok(AliasSubstituted)
                   ELSE Ok(NonEmpty(<<t, r.value.value>>)),
        calls |-> fCalls + 1]

\* Rec::zip, the arm of Empty(t).
ZipEmpty(t) ==
    LET r == F(fCalls + 1)
    IN [pc |-> "done",
        result |-> IF ~r.ok THEN r
                   ELSE IF r.value.tag = "AliasSubstituted"
                   THEN Ok(AliasSubstituted)
                   ELSE IF r.value.tag = "Empty"
                   THEN Ok(Empty(<<t, r.value.value>>))
                   ELSE Ok(NonEmpty(<<t, r.value.value>>)),
        calls |-> fCalls + 1]

\* The arm of NonEmpty(t) calling f once, as the arm of Empty(t) does.
ZipNonEmpty_CallsOnce(t) ==
    LET r == F(fCalls + 1)
    IN [pc |-> "done",
        result |-> IF ~r.ok THEN r
                   ELSE IF r.value.tag = "AliasSubstituted"
                   THEN Ok(AliasSubstituted)
                   ELSE Ok(NonEmpty(<<t, r.value.value>>)),
        calls |-> fCalls + 1]

\* Rec::zip, the arm of NonEmpty(t): enters finish.
ZipNonEmpty(t) == [pc |-> "finish", result |-> <<>>, calls |-> fCalls]

\* Rec::zip: the match on self.
ZipMatch ==
    /\ recOp = "zip"
    /\ recPc = "run"
    /\ LET arm == IF zipSelf.tag = "AliasSubstituted" THEN ZipAliasSubstituted
                  ELSE IF zipSelf.tag = "Empty" THEN ZipEmpty(zipSelf.value)
                  ELSE ZipNonEmpty(zipSelf.value)
       IN /\ recPc' = arm.pc
          /\ recResult' = arm.result
          /\ fCalls' = arm.calls
    /\ UNCHANGED <<recOp, zipSelf, fAlias, fFinal, nonRecVars>>

\* Rec::zip, the arm of NonEmpty(t): what it returns for the result of finish.
ZipNonEmptyResult(t, u) == IF u.ok THEN Ok(NonEmpty(<<t, u.value>>)) ELSE u

\* Rec::zip, the arm of NonEmpty(t): one iteration of finish(|| f(&t)).
ZipFinishCall ==
    /\ recOp = "zip"
    /\ recPc = "finish"
    /\ fCalls <= MaxAlias + 1
    /\ LET it == FinishIteration(F(fCalls + 1))
       IN /\ fCalls' = fCalls + 1
          /\ recPc' = IF it.done THEN "done" ELSE "finish"
          /\ recResult' = IF it.done
                          THEN ZipNonEmptyResult(zipSelf.value, it.result)
                          ELSE <<>>
    /\ UNCHANGED <<recOp, zipSelf, fAlias, fFinal, nonRecVars>>

NextRec ==
    \/ FinishCall
    \/ ZipMatch
    \/ ZipFinishCall

\* ---------------------------------------------- Expansion and Output

\* The characters a caller pushes with push_char.
AttrChars ==
    { [value |-> "X", origin |-> "Literal", is_quoted |-> TRUE,
       is_quoting |-> FALSE],
      [value |-> "Y", origin |-> "HardExpansion", is_quoted |-> FALSE,
       is_quoting |-> TRUE] }

\* The strings a caller pushes with push_str.
Strs == { <<"a", "z">> }

IdleOp == [op |-> "none", pushed |-> <<>>]

ExpIdle ==
    /\ sinkKind = "field"
    /\ inner = <<>>
    /\ outputLive = FALSE
    /\ is_quoted = FALSE
    /\ guards = <<>>
    /\ pushLog = <<>>
    /\ expLast = IdleOp

\* Vec::<AttrChar>::default() or Vec::<Vec<AttrChar>>::default()
InitExp ==
    /\ sinkKind \in {"field", "fields"}
    /\ inner = <<>>
    /\ outputLive = FALSE
    /\ is_quoted = FALSE
    /\ guards = <<>>
    /\ pushLog = <<>>
    /\ expLast = IdleOp

\* impl Expansion for Vec<AttrChar>: push_char
VecPushChar(v, c) == Append(v, c)

\* push_char appending to the first field instead of the last.
VecVecPushChar_First(v, c) ==
    IF v # <<>> THEN [v EXCEPT ![1] = Append(v[1], c)]
    ELSE Append(v, <<c>>)

\* impl Expansion for Vec<Vec<AttrChar>>: push_char
VecVecPushChar(v, c) ==
    IF v # <<>> THEN [v EXCEPT ![Len(v)] = Append(v[Len(v)], c)]
    ELSE Append(v, <<c>>)

\* Expansion::push_char of the sink behind `dyn Expansion`.
SinkPushChar(v, c) ==
    IF sinkKind = "field" THEN VecPushChar(v, c) ELSE VecVecPushChar(v, c)

\* Expansion::push_str, the default method: one push_char per character.
RECURSIVE SinkPushStr(_, _, _, _, _)
SinkPushStr(v, str, origin, quoted, quoting) ==
    IF str = <<>> THEN v
    ELSE SinkPushStr(SinkPushChar(v, [value |-> Head(str), origin |-> origin,
                                      is_quoted |-> quoted,
                                      is_quoting |-> quoting]),
                     Tail(str), origin, quoted, quoting)

\* The ghost record of n characters pushed with the flag `asked`.
Logged(n, asked) ==
    [i \in 1..n |-> [asked |-> asked, depth |-> Len(guards)]]

\* push_char called on the sink itself.
DirectPushChar(c) ==
    /\ ~outputLive
    /\ Len(pushLog) < MaxPush
    /\ inner' = SinkPushChar(inner, c)
    /\ pushLog' = pushLog \o Logged(1, c.is_quoted)
    /\ expLast' = [op |-> "push_char", pushed |-> <<c>>]
    /\ UNCHANGED <<sinkKind, outputLive, is_quoted, guards, nonExpVars>>

\* A caller opening a new field of the multi-field sink.
StartNewField ==
    /\ ~outputLive
    /\ sinkKind = "fields"
    /\ Len(inner) < MaxFields
    /\ inner' = Append(inner, <<>>)
    /\ expLast' = [op |-> "start_new_field", pushed |-> <<>>]
    /\ UNCHANGED <<sinkKind, outputLive, is_quoted, guards, pushLog, nonExpVars>>

\* Output::new
OutputNew ==
    /\ ~outputLive
    /\ outputLive' = TRUE
    /\ is_quoted' = FALSE
    /\ expLast' = [op |-> "new", pushed |-> <<>>]
    /\ UNCHANGED <<sinkKind, inner, guards, pushLog, nonExpVars>>

\* The Output goes out of scope: the sink is the caller's again.
OutputDrop ==
    /\ outputLive
    /\ guards = <<>>
    /\ outputLive' = FALSE
    /\ expLast' = [op |-> "drop_output", pushed |-> <<>>]
    /\ UNCHANGED <<sinkKind, inner, is_quoted, guards, pushLog, nonExpVars>>

\* impl Expansion for Output: the character push_char hands to the sink.
OutputChar(c) == [c EXCEPT !.is_quoted = c.is_quoted \/ is_quoted]

\* push_str handing the flag it was given to the sink.
OutputStrFlag_NoScope(quoted) == quoted

\* impl Expansion for Output: the is_quoted flag push_str hands to the sink.
OutputStrFlag(quoted) == quoted \/ is_quoted

\* impl Expansion for Output: push_char
OutputPushChar(c) ==
    /\ outputLive
    /\ Len(pushLog) < MaxPush
    /\ inner' = SinkPushChar(inner, OutputChar(c))
    /\ pushLog' = pushLog \o Logged(1, c.is_quoted)
    /\ expLast' = [op |-> "push_char", pushed |-> <<OutputChar(c)>>]
    /\ UNCHANGED <<sinkKind, outputLive, is_quoted, guards, nonExpVars>>

\* impl Expansion for Output: push_str
OutputPushStr(str, origin, quoted, quoting) ==
    /\ outputLive
    /\ Len(pushLog) + Len(str) <= MaxPush
    /\ inner' = SinkPushStr(inner, str, origin, OutputStrFlag(quoted), quoting)
    /\ pushLog' = pushLog \o Logged(Len(str), quoted)
    /\ expLast' = [op |-> "push_str", pushed |-> <<>>]
    /\ UNCHANGED <<sinkKind, outputLive, is_quoted, guards, nonExpVars>>

\* Output::begin_quote: the flag it sets and the guard it returns.
BeginQuoteGuard == [is_quoted |-> TRUE, was_quoted |-> is_quoted]

\* Output::begin_quote
BeginQuote ==
    /\ outputLive
    /\ Len(guards) < MaxDepth
    /\ is_quoted' = BeginQuoteGuard.is_quoted
    /\ guards' = Append(guards, [was_quoted |-> BeginQuoteGuard.was_quoted])
    /\ expLast' = [op |-> "begin_quote", pushed |-> <<>>]
    /\ UNCHANGED <<sinkKind, inner, outputLive, pushLog, nonExpVars>>

\* A drop that clears the flag instead of restoring the saved value.
QuotedOutputDrop_Clears(guard) == FALSE

\* Drop for QuotedOutput: the value of Output.is_quoted afterwards.
QuotedOutputDrop(guard) == guard.was_quoted

\* Output::end_quote: takes the innermost guard by value, which drops it.
EndQuote ==
    /\ outputLive
    /\ guards # <<>>
    /\ is_quoted' = QuotedOutputDrop(guards[Len(guards)])
    /\ guards' = SubSeq(guards, 1, Len(guards) - 1)
    /\ expLast' = [op |-> "end_quote", pushed |-> <<>>]
    /\ UNCHANGED <<sinkKind, inner, outputLive, pushLog, nonExpVars>>

\* The innermost guard goes out of scope (also on an early return).
DropQuotedOutput ==
    /\ outputLive
    /\ guards # <<>>
    /\ is_quoted' = QuotedOutputDrop(guards[Len(guards)])
    /\ guards' = SubSeq(guards, 1, Len(guards) - 1)
    /\ expLast' = [op |-> "drop_guard", pushed |-> <<>>]
    /\ UNCHANGED <<sinkKind, inner, outputLive, pushLog, nonExpVars>>

NextExp ==
    \/ \E c \in AttrChars : DirectPushChar(c)
    \/ StartNewField
    \/ OutputNew
    \/ OutputDrop
    \/ \E c \in AttrChars : OutputPushChar(c)
    \/ \E str \in Strs, quoted \in BOOLEAN :
          OutputPushStr(str, "SoftExpansion", quoted, FALSE)
    \/ BeginQuote
    \/ EndQuote
    \/ DropQuotedOutput

\* ------------------------------------------------------------------ glob

\* The Locations a field can come from.
Origins == {"L1", "L2"}

\* dummy_attr_field: a character of a soft expansion, not quoted
Plain(value) ==
    [value |-> value, origin |-> "SoftExpansion", is_quoted |-> FALSE,
     is_quoting |-> FALSE]

\* A quoted character, as in f.chars[4].is_quoted = true.
Quoted(value) == [Plain(value) EXCEPT !.is_quoted = TRUE]

\* A character of a hard expansion, as in f.chars[4].origin = HardExpansion.
Hard(value) == [Plain(value) EXCEPT !.origin = "HardExpansion"]

\* A quotation mark, as in f.chars[1].is_quoting = true.
Quoting == [Plain("\"") EXCEPT !.is_quoting = TRUE, !.origin = "Literal"]

\* The character sequences of the fields glob is called with.
FieldChars ==
    { << Plain("a"), Plain("b") >>,
      << Plain("a"), Plain("."), Plain("*") >>,
      << Plain("a"), Plain("."), Quoted("*") >>,
      << Plain("a"), Plain("."), Hard("*") >>,
      << Quoting, Quoted("*"), Quoting >>,
      << Quoting, Quoted("a"), Quoting, Plain("*") >>,
      << Plain("*"), Plain("."), Plain("d") >>,
      << Plain("*") >>,
      << Plain("."), Plain("*") >>,
      << Plain("?"), Plain("."), Plain("["), Plain("b"), Plain("c"),
         Plain("]") >>,
      << Plain("["), Plain("a") >>,
      << Quoting, Quoted("a"), Quoting, Plain("[") >> }

AttrFields == [chars : FieldChars, origin : Origins]

\* The names a directory entry can have.
Names ==
    { <<"a", ".", "b">>, <<"a", ".", "c">>, <<".", "b">>, <<"a">> }

\* The directories: distinct names, in the order dir.next yields them.
Dirs ==
    UNION { { d \in [1..n -> Names] :
                \A i, j \in 1..n : i # j => d[i] # d[j] } :
            n \in 0..MaxEntries }

GlobIdle ==
    /\ gDir = <<>>
    /\ gIdx = 0
    /\ gField = None
    /\ gPc = "idle"
    /\ gPaths = <<>>
    /\ gResult = <<>>
    /\ gDirCalls = 0
    /\ gErr = "none"
    /\ gInner = [kind |-> "unset", items |-> <<>>]
    /\ gNext = <<>>

\* Env::new_virtual() and the files created in it
InitGlob ==
    /\ gDir \in Dirs
    /\ gIdx = 0
    /\ gField = None
    /\ gPc = "idle"
    /\ gPaths = <<>>
    /\ gResult = <<>>
    /\ gDirCalls = 0
    /\ gErr = "none"
    /\ gInner = [kind |-> "unset", items |-> <<>>]
    /\ gNext = <<>>

Field(value, origin) == [value |-> value, origin |-> origin]

\* to_pattern keeping the quotation marks in the pattern.
KeepsChar_All(c) == TRUE

\* to_pattern: the filter_map drops the is_quoting characters
KeepsChar(c) == ~c.is_quoting

\* to_pattern taking only the quoted characters as literal.
ToPatternChar_QuotedOnly(c) ==
    IF c.is_quoted
    THEN [kind |-> "Literal", value |-> c.value]
    ELSE [kind |-> "Normal", value |-> c.value]

\* to_pattern: the PatternChar of a character that is kept
ToPatternChar(c) ==
    IF c.is_quoted \/ c.origin = "HardExpansion"
    THEN [kind |-> "Literal", value |-> c.value]
    ELSE [kind |-> "Normal", value |-> c.value]

PatternChars(field) ==
    LET kept == SelectSeq(field.chars, KeepsChar)
    IN [i \in 1..Len(kept) |-> ToPatternChar(kept[i])]

IsNormal(atom, value) == atom.kind = "Normal" /\ atom.value = value

\* Pattern::parse_with_config: the elements of the pattern from position
\* i on, or None for a bracket expression that is not terminated.
RECURSIVE ParseFrom(_, _)
ParseFrom(atoms, i) ==
    IF i > Len(atoms) THEN Some(<<>>)
    ELSE LET a == atoms[i]
             closes == { j \in (i + 2)..Len(atoms) : IsNormal(atoms[j], "]") }
             stop == IF IsNormal(a, "[") /\ closes # {} THEN Min(closes) ELSE i
             element ==
                 CASE IsNormal(a, "*") -> [kind |-> "AnyString"]
                   [] IsNormal(a, "?") -> [kind |-> "AnyChar"]
                   [] IsNormal(a, "[") ->
                        [kind |-> "Bracket",
                         set |-> { atoms[k].value : k \in (i + 1)..(stop - 1) }]
                   [] OTHER -> [kind |-> "Char", value |-> a.value]
             rest == ParseFrom(atoms, stop + 1)
         IN IF IsNormal(a, "[") /\ closes = {} THEN None
            ELSE IF rest.some THEN Some(<<element>> \o rest.value)
            ELSE None

\* to_pattern: Pattern::parse_with_config(chars, config).ok()
ToPattern(field) == ParseFrom(PatternChars(field), 1)

\* Pattern::into_literal: the text of a pattern of literal elements only
IntoLiteral(pattern) ==
    IF \A i \in 1..Len(pattern) : pattern[i].kind = "Char"
    THEN Ok([i \in 1..Len(pattern) |-> pattern[i].value])
    ELSE Err(pattern)

\* Pattern::is_match, anchored at both ends: elements i.. match name j..
\* A period that starts the name is matched by a literal period only.
RECURSIVE MatchFrom(_, _, _, _)
MatchFrom(pattern, i, name, j) ==
    IF i > Len(pattern) THEN j > Len(name)
    ELSE LET e == pattern[i]
             more == j <= Len(name)
             leadingPeriod == j = 1 /\ more /\ name[1] = "."
         IN CASE e.kind = "Char" ->
                   more /\ name[j] = e.value
                        /\ MatchFrom(pattern, i + 1, name, j + 1)
              [] e.kind = "AnyChar" ->
                   more /\ ~leadingPeriod
                        /\ MatchFrom(pattern, i + 1, name, j + 1)
              [] e.kind = "Bracket" ->
                   more /\ ~leadingPeriod /\ name[j] \in e.set
                        /\ MatchFrom(pattern, i + 1, name, j + 1)
              [] e.kind = "AnyString" ->
                   \/ MatchFrom(pattern, i + 1, name, j)
                   \/ more /\ ~leadingPeriod
                           /\ MatchFrom(pattern, i, name, j + 1)

IsMatch(pattern, name) == MatchFrom(pattern, 1, name, 1)

\* AttrField::remove_quotes_and_strip: the field without its quotation
\* marks and without the attributes of its characters
RemoveQuotesAndStrip(field) ==
    LET kept == SelectSeq(field.chars, LAMBDA c : ~c.is_quoting)
    IN Field([i \in 1..Len(kept) |-> kept[i].value], field.origin)

\* The byte value of a character.
Code(c) ==
    CASE c = "\"" -> 34 [] c = "*" -> 42 [] c = "." -> 46 [] c = "?" -> 63
      [] c = "[" -> 91 [] c = "]" -> 93 [] c = "a" -> 97 [] c = "b" -> 98
      [] c = "c" -> 99 [] c = "d" -> 100 [] c = "-" -> 45 [] c = "<" -> 60
      [] c = "x" -> 120

\* a.value.cmp(&b.value) is Less
RECURSIVE StrLess(_, _)
StrLess(s, t) ==
    IF t = <<>> THEN FALSE
    ELSE IF s = <<>> THEN TRUE
    ELSE IF Head(s) # Head(t) THEN Code(Head(s)) < Code(Head(t))
    ELSE StrLess(Tail(s), Tail(t))

RECURSIVE Insert(_, _)
Insert(f, sorted) ==
    IF sorted = <<>> THEN <<f>>
    ELSE IF StrLess(f.value, Head(sorted).value) THEN <<f>> \o sorted
    ELSE <<Head(sorted)>> \o Insert(f, Tail(sorted))

RECURSIVE InsertionSort(_)
InsertionSort(paths) ==
    IF paths = <<>> THEN <<>>
    ELSE Insert(Head(paths), InsertionSort(Tail(paths)))

\* The paths returned in the order the directory yielded them.
SortUnstableByValue_ScanOrder(paths) == paths

\* paths.sort_unstable_by(|a, b| a.value.cmp(&b.value))
SortUnstableByValue(paths) == InsertionSort(paths)

\* An invalid pattern yielding no field at all.
GlobInvalid_Nothing(field) == <<>>

\* glob: to_pattern gave None
GlobInvalid(field) == << RemoveQuotesAndStrip(field) >>

\* glob: pattern.into_literal() gave Ok(literal)
GlobLiteral(field, literal) == << Field(literal, field.origin) >>

\* No match yielding no field (a null glob).
ScanEnd_NullGlob(field, paths) == SortUnstableByValue(paths)

\* glob: dir.next() gave Ok(None)
ScanEnd(field, paths) ==
    IF paths = <<>> THEN << RemoveQuotesAndStrip(field) >>
    ELSE SortUnstableByValue(paths)

\* glob: dir.next() gave Ok(Some(entry))
ScanEntry(pattern, field, paths, name) ==
    IF IsMatch(pattern, name)
    THEN Append(paths, Field(name, field.origin))
    ELSE paths

\* Inner::One(std::iter::once(field)): an iterator holding one Field
InnerOne(fields) == [kind |-> "One", items |-> fields]

\* Inner::Many(paths.into_iter()): an iterator over the vector
InnerMany(paths) == [kind |-> "Many", items |-> paths]

\* Glob::next handing out the first Field without consuming it.
IterNext_Repeats(iter) ==
    IF iter.items = <<>>
    THEN [returned |-> None, inner |-> iter]
    ELSE [returned |-> Some(Head(iter.items)), inner |-> iter]

\* Glob::next: once.next() or many.next(); either takes the first Field it
\* still holds, and gives None when it holds none
IterNext(iter) ==
    IF iter.items = <<>>
    THEN [returned |-> None, inner |-> iter]
    ELSE [returned |-> Some(Head(iter.items)),
          inner |-> [iter EXCEPT !.items = Tail(@)]]

\* glob up to the first dir.next(): to_pattern, into_literal and opendir,
\* which succeeds or fails as the system decides.
GlobCall(field, opendirOk) ==
    /\ gPc = "idle"
    /\ gField' = Some(field)
    /\ LET pattern == ToPattern(field)
           literal == IntoLiteral(pattern.value)
       IN IF ~pattern.some
          THEN /\ gPc' = "done"
               /\ gResult' = GlobInvalid(field)
               /\ gInner' = InnerOne(gResult')
               /\ UNCHANGED <<gDirCalls, gErr>>
          ELSE IF literal.ok
          THEN /\ gPc' = "done"
               /\ gResult' = GlobLiteral(field, literal.value)
               /\ gInner' = InnerOne(gResult')
               /\ UNCHANGED <<gDirCalls, gErr>>
          ELSE IF opendirOk
          THEN /\ gPc' = "scan"
               /\ gDirCalls' = gDirCalls + 1
               /\ UNCHANGED <<gResult, gErr, gInner>>
          ELSE \* opendir(...).unwrap() on an Err
               /\ gPc' = "panicked"
               /\ gDirCalls' = gDirCalls + 1
               /\ gErr' = "opendir"
               /\ UNCHANGED <<gResult, gInner>>
    /\ UNCHANGED <<gDir, gIdx, gPaths, gNext, nonGlobVars>>

\* while let Ok(entry) = dir.next(), entry being Some(entry)
DirNextSome ==
    /\ gPc = "scan"
    /\ gIdx < Len(gDir)
    /\ gIdx' = gIdx + 1
    /\ gDirCalls' = gDirCalls + 1
    /\ gPaths' = ScanEntry(ToPattern(gField.value).value, gField.value,
                           gPaths, gDir[gIdx + 1])
    /\ UNCHANGED <<gDir, gField, gPc, gResult, gErr, gInner, gNext,
                   nonGlobVars>>

\* while let Ok(entry) = dir.next(), entry being None
DirNextNone ==
    /\ gPc = "scan"
    /\ gIdx = Len(gDir)
    /\ gDirCalls' = gDirCalls + 1
    /\ gPc' = "done"
    /\ gResult' = ScanEnd(gField.value, gPaths)
    /\ gInner' = IF gPaths = <<>> THEN InnerOne(gResult')
                 ELSE InnerMany(gResult')
    /\ UNCHANGED <<gDir, gIdx, gField, gPaths, gErr, gNext, nonGlobVars>>

\* dir.next() gave Err: the loop ends and todo!("Handle dir.next error")
\* panics
DirNextErr ==
    /\ gPc = "scan"
    /\ gDirCalls' = gDirCalls + 1
    /\ gPc' = "panicked"
    /\ gErr' = "next"
    /\ UNCHANGED <<gDir, gIdx, gField, gPaths, gResult, gInner, gNext,
                   nonGlobVars>>

\* Glob::next on the iterator glob returned
GlobNext ==
    /\ gPc = "done"
    /\ Len(gNext) < MaxNextCalls
    /\ LET r == IterNext(gInner)
       IN /\ gInner' = r.inner
          /\ gNext' = Append(gNext, r.returned)
    /\ UNCHANGED <<gDir, gIdx, gField, gPc, gPaths, gResult, gDirCalls, gErr,
                   nonGlobVars>>

NextGlob ==
    \/ \E field \in AttrFields, opendirOk \in BOOLEAN :
          GlobCall(field, opendirOk)
    \/ DirNextSome
    \/ DirNextNone
    \/ DirNextErr
    \/ GlobNext

\* ----------------------------------------- the character lexer, operators

\* Trie containing nothing.
NONE == <<>>

\* Trie of the operators that start with <<.
LESS_LESS ==
    << [key |-> "-", value |-> Some("LessLessDash"), next |-> NONE] >>

\* Trie of the operators that start with <.
LESS == << [key |-> "<", value |-> Some("LessLess"), next |-> LESS_LESS] >>

\* Trie containing all the operators.
OPERATORS == << [key |-> "<", value |-> None, next |-> LESS] >>

\* binary_search_by_key on the sorted edges lo..hi: the index found, or 0
RECURSIVE BinarySearchByKey(_, _, _, _)
BinarySearchByKey(trie, key, lo, hi) ==
    IF lo > hi THEN 0
    ELSE LET mid == (lo + hi) \div 2
         IN IF trie[mid].key = key THEN mid
            ELSE IF Code(trie[mid].key) < Code(key)
            THEN BinarySearchByKey(trie, key, mid + 1, hi)
            ELSE BinarySearchByKey(trie, key, lo, mid - 1)

\* Trie::edge taking the first edge of the node whatever the key.
edge_AnyKey(trie, key) ==
    IF trie = <<>> THEN None ELSE Some(trie[1])

\* Trie::edge
edge(trie, key) ==
    LET i == BinarySearchByKey(trie, key, 1, Len(trie))
    IN IF i = 0 THEN None ELSE Some(trie[i])

\* The chunks of text the input producer yields.
Chunks ==
    { <<"<", "<", "-">>, <<"<", "<", "x">>, <<"<", "x">>, <<"<">> }

LexIdle ==
    /\ lx = [lines |-> <<>>, fail |-> FALSE, source |-> <<>>, index |-> 1,
             latch |-> None, reads |-> 0]
    /\ lxCalls = 0
    /\ lxLast = [op |-> "none"]

\* A lexer on a producer that yields up to MaxChunks chunks and then
\* signals the end of input or an input failure.
InitLex ==
    /\ \E ls \in UNION { [1..n -> Chunks] : n \in 0..MaxChunks },
          fail \in BOOLEAN :
          lx = [lines |-> ls, fail |-> fail, source |-> <<>>, index |-> 1,
                latch |-> None, reads |-> 0]
    /\ lxCalls = 0
    /\ lxLast = [op |-> "none"]

\* The error for the end of the source: its Location is one column past
\* the last character read, or line 1, column 1 of an empty source.
LexerError(l) ==
    [cause |-> IF l.fail THEN "IoError" ELSE "EndOfInput",
     location |-> [line |-> 1, column |-> Len(l.source) + 1]]

\* The latch consulted never: the producer is asked again.
IsLatched_Never(l) == FALSE

\* The lexer's end-of-input latch is set.
IsLatched(l) == l.latch.some

\* The lexer after making the character at its position available: it asks
\* the producer for chunks while the buffer is exhausted, and latches the
\* producer's terminal signal.
RECURSIVE Fill(_)
Fill(l) ==
    IF l.index <= Len(l.source) THEN l
    ELSE IF IsLatched(l) THEN l
    ELSE IF l.lines # <<>>
    THEN Fill([l EXCEPT !.source = @ \o Head(l.lines),
                        !.lines = Tail(@),
                        !.reads = @ + 1])
    ELSE [l EXCEPT !.latch = Some(LexerError(l)), !.reads = @ + 1]

\* What peek returns on a filled lexer.
PeekResult(l) ==
    IF l.index <= Len(l.source) THEN Ok(l.source[l.index])
    ELSE Err(l.latch.value)

\* peek consuming the character it returns.
PeekPosition_Advances(l) == l.index + 1

\* The position peek leaves the lexer at.
PeekPosition(l) == l.index

\* The call before this one: what it was and whether it succeeded.
Previous ==
    [op |-> lxLast.op,
     ok |-> IF lxLast.op = "none" THEN TRUE ELSE lxLast.result.ok]

\* Lexer::peek
LexerPeek ==
    /\ lxCalls < MaxCalls
    /\ lxCalls' = lxCalls + 1
    /\ LET filled == Fill(lx)
       IN /\ lx' = [filled EXCEPT !.index = PeekPosition(filled)]
          /\ lxLast' = [op |-> "peek", result |-> PeekResult(filled),
                        prev |-> Previous]
    /\ UNCHANGED nonLexVars

\* Lexer::next: peeks and, if not an error, advances by one character
LexerNext ==
    /\ lxCalls < MaxCalls
    /\ lxCalls' = lxCalls + 1
    /\ LET filled == Fill(lx)
           result == PeekResult(filled)
       IN /\ lx' = IF result.ok THEN [filled EXCEPT !.index = @ + 1]
                   ELSE filled
          /\ lxLast' = [op |-> "next", result |-> result, prev |-> Previous]
    /\ UNCHANGED nonLexVars

\* The walk of the trie from the lexer's position: follow an edge for each
\* next character until none matches, remembering the deepest completed
\* operator and the position after it.
RECURSIVE OperatorTail(_, _, _, _)
OperatorTail(l, trie, best, bestIndex) ==
    LET filled == Fill(l)
        peeked == PeekResult(filled)
        stop == [lexer |-> [filled EXCEPT !.index = bestIndex],
                 result |-> Ok(best)]
    IN IF trie = NONE THEN [lexer |-> [l EXCEPT !.index = bestIndex],
                            result |-> Ok(best)]
       ELSE IF ~peeked.ok
       THEN IF peeked.error.cause = "IoError"
            THEN [lexer |-> filled, result |-> Err(peeked.error)]
            ELSE stop
       ELSE LET e == edge(trie, peeked.value)
            IN IF ~e.some THEN stop
               ELSE LET after == [filled EXCEPT !.index = @ + 1]
                    IN IF e.value.value.some
                       THEN OperatorTail(after, e.value.next,
                                         e.value.value, after.index)
                       ELSE OperatorTail(after, e.value.next,
                                         best, bestIndex)

\* Lexer::operator: the operator token at the lexer's position, if any
LexerOperator ==
    /\ lxCalls < MaxCalls
    /\ lxCalls' = lxCalls + 1
    /\ LET walk == OperatorTail(lx, OPERATORS, None, lx.index)
       IN /\ lx' = walk.lexer
          /\ lxLast' = [op |-> "operator", result |-> walk.result,
                        start |-> lx.index, prev |-> Previous]
    /\ UNCHANGED nonLexVars

NextLex ==
    \/ LexerPeek
    \/ LexerNext
    \/ LexerOperator

\* ------------------------------------------------------ the read-eval loop

\* ExitStatus::SUCCESS
SUCCESS == 0
\* ExitStatus::ERROR
ERROR == 2

Continue == [tag |-> "Continue"]
Break(divert) == [tag |-> "Break", divert |-> divert]
Interrupt(exit_status) == [kind |-> "Interrupt", exit_status |-> exit_status]
Return(exit_status) == [kind |-> "Return", exit_status |-> exit_status]

\* What running the traps or executing a command can result in.
Results ==
    { Continue,
      Break(Interrupt(None)),
      Break(Interrupt(Some(ERROR))),
      Break(Return(Some(7))) }

\* The exit statuses a command or a trap can leave in env.exit_status.
LeftStatuses == {SUCCESS, 7}

\* What Parser::command_line returns for a line: Ok(Some(command)) or
\* Err(error); after the last line it returns Ok(None).
CommandLines == {"command", "syntax_error"}

RunIdle ==
    /\ rInteractive = FALSE
    /\ rLines = <<>>
    /\ rLine = 0
    /\ rPc = "returned"
    /\ rExecuted = FALSE
    /\ rExitStatus = SUCCESS
    /\ rResult = None
    /\ rLog = <<>>

\* The call of read_eval_loop or interactive_read_eval_loop: the loop is
\* entered with executed = false.
InitRun ==
    /\ rInteractive \in BOOLEAN
    /\ rLines \in UNION { [1..n -> CommandLines] : n \in 0..MaxCommandLines }
    /\ rLine = 0
    /\ rPc = "parse"
    /\ rExecuted = FALSE
    /\ rExitStatus \in {SUCCESS, 5}
    /\ rResult = None
    /\ rLog = <<>>

Event(ev, line, result, status) ==
    [ev |-> ev, line |-> line, result |-> result, status |-> status]

\* error.handle(env): the result of handling a syntax error
HandleError == Break(Interrupt(Some(ERROR)))

\* The loop recovering from every divert in interactive mode.
Recovers_AnyDivert(is_interactive, result) ==
    is_interactive /\ result.tag = "Break"

\* The loop recovering from interrupts in every mode.
Recovers_AnyMode(is_interactive, result) ==
    result.tag = "Break" /\ result.divert.kind = "Interrupt"

\* if is_interactive { if let Break(Divert::Interrupt(_)) = result
Recovers(is_interactive, result) ==
    /\ is_interactive
    /\ result.tag = "Break"
    /\ result.divert.kind = "Interrupt"

\* The command line executed, whatever the traps resulted in.
AfterTraps_Execute(result) == "execute"

\* run_command: run_traps_for_caught_signals(env).await?
AfterTraps(result) ==
    IF result.tag = "Break" THEN "run_command returns" ELSE "execute"

\* The next command line parsed before the parsed one is executed.
AfterCommandLine_Parse == "parse"

\* Ok(Some(command)) => run_command(env, &command)
AfterCommandLine == "traps"

\* The exit status set to zero at the end of every input.
ZeroAtEnd_Always(executed) == TRUE

\* Ok(None) => if !executed { env.exit_status = ExitStatus::SUCCESS }
ZeroAtEnd(executed) == ~executed

\* The match arm for the result of run_command and the end of the loop
\* body: the recovery from interrupts, result?, executed = true. The exit
\* status is the one run_command left.
AfterRunCommand(result, status) ==
    LET recovered == Recovers(rInteractive, result)
        final == IF recovered THEN Continue ELSE result
    IN /\ rExitStatus' =
             IF recovered /\ result.divert.exit_status.some
             THEN result.divert.exit_status.value
             ELSE status
       /\ IF final.tag = "Break"
          THEN /\ rPc' = "returned"
               /\ rResult' = Some(final)
               /\ UNCHANGED rExecuted
          ELSE /\ rPc' = "parse"
               /\ rExecuted' = TRUE
               /\ UNCHANGED rResult

\* Parser::new(lexer, env).command_line() and the match arms that do not
\* run the command: Ok(None) and Err(error)
CommandLine ==
    /\ rPc = "parse"
    /\ rLine' = rLine + 1
    /\ IF rLines = <<>>
       THEN /\ rExitStatus' = IF ZeroAtEnd(rExecuted) THEN SUCCESS
                              ELSE rExitStatus
            /\ rPc' = "returned"
            /\ rResult' = Some(Continue)
            /\ rLog' = Append(rLog, Event("parse", rLine + 1, "None",
                                          rExitStatus))
            /\ UNCHANGED <<rLines, rExecuted>>
       ELSE IF Head(rLines) = "command"
       THEN /\ rPc' = AfterCommandLine
            /\ rLines' = Tail(rLines)
            /\ rLog' = Append(rLog, Event("parse", rLine + 1, "Some",
                                          rExitStatus))
            /\ UNCHANGED <<rExitStatus, rExecuted, rResult>>
       ELSE \* Err(error) => error.handle(env).await?
            /\ rLines' = Tail(rLines)
            /\ rLog' = Append(rLog, Event("parse", rLine + 1, "Err",
                                          rExitStatus))
            /\ IF HandleError.tag = "Break"
               THEN /\ rPc' = "returned"
                    /\ rResult' = Some(HandleError)
                    /\ UNCHANGED <<rExitStatus, rExecuted>>
               ELSE /\ rPc' = "parse"
                    /\ rExecuted' = TRUE
                    /\ UNCHANGED <<rExitStatus, rResult>>
    /\ UNCHANGED <<rInteractive, nonRunVars>>

\* run_command: run_traps_for_caught_signals(env), which results in result
\* and leaves the exit status as it is or at a status of its own, then
\* update_all_subshell_statuses
RunTraps(result, left) ==
    /\ rPc = "traps"
    /\ LET status == IF left.some THEN left.value ELSE rExitStatus
       IN /\ rLog' = Append(rLog, Event("traps", rLine, result, status))
          /\ IF AfterTraps(result) = "execute"
             THEN /\ rPc' = "execute"
                  /\ rExitStatus' = status
                  /\ UNCHANGED <<rExecuted, rResult>>
             ELSE AfterRunCommand(result, status)
    /\ UNCHANGED <<rInteractive, rLines, rLine, nonRunVars>>

\* run_command: command.execute(env), which results in result and leaves
\* the exit status at status
Execute(result, status) ==
    /\ rPc = "execute"
    /\ rLog' = Append(rLog, Event("execute", rLine, result, status))
    /\ AfterRunCommand(result, status)
    /\ UNCHANGED <<rInteractive, rLines, rLine, nonRunVars>>

NextRun ==
    \/ CommandLine
    \/ \E result \in Results,
          left \in {None} \cup { Some(status) : status \in LeftStatuses } :
          RunTraps(result, left)
    \/ \E result \in Results, status \in LeftStatuses :
          Execute(result, status)

\* ---------------------------------------------------------------- TrapSet

\* SignalHandling
SignalHandlings == {"Default", "Ignore", "Catch"}

TrapIdle ==
    /\ initial_sigchld = None
    /\ sigchld = "Default"
    /\ tOriginal = "Default"
    /\ tCalls = 0
    /\ tLast = [op |-> "none", ok |-> TRUE, system_calls |-> 0, enables |-> 0]

\* TrapSet::default() and a system with some handling of SIGCHLD
InitTrap ==
    /\ initial_sigchld = None
    /\ sigchld \in SignalHandlings
    /\ tOriginal = sigchld
    /\ tCalls = 0
    /\ tLast = [op |-> "none", ok |-> TRUE, system_calls |-> 0, enables |-> 0]

\* get_or_insert replacing the handling remembered before.
GetOrInsert_Overwrites(initial, previous_handler) == Some(previous_handler)

\* self.initial_sigchld.get_or_insert(previous_handler)
GetOrInsert(initial, previous_handler) ==
    IF initial.some THEN initial ELSE Some(previous_handler)

\* TrapSet::enable_sigchld_handler; set_signal_handling succeeds or fails
\* as the system decides, and changes nothing when it fails.
EnableSigchldHandler(succeeds) ==
    /\ tCalls < MaxTrapCalls
    /\ tCalls' = tCalls + 1
    /\ IF succeeds
       THEN /\ sigchld' = "Catch"
            /\ initial_sigchld' = GetOrInsert(initial_sigchld, sigchld)
       ELSE UNCHANGED <<sigchld, initial_sigchld>>
    /\ tLast' = [op |-> "enable", ok |-> succeeds, system_calls |-> 1,
                 enables |-> tLast.enables + (IF succeeds THEN 1 ELSE 0)]
    /\ UNCHANGED <<tOriginal, nonTrapVars>>

\* TrapSet::disable_internal_handlers
DisableInternalHandlers(succeeds) ==
    /\ tCalls < MaxTrapCalls
    /\ tCalls' = tCalls + 1
    /\ IF initial_sigchld.some
       THEN /\ sigchld' = IF succeeds THEN initial_sigchld.value ELSE sigchld
            /\ tLast' = [op |-> "disable", ok |-> succeeds,
                         system_calls |-> 1, enables |-> tLast.enables]
       ELSE /\ UNCHANGED sigchld
            /\ tLast' = [op |-> "disable", ok |-> TRUE, system_calls |-> 0,
                         enables |-> tLast.enables]
    /\ UNCHANGED <<initial_sigchld, tOriginal, nonTrapVars>>

NextTrap ==
    \/ \E succeeds \in BOOLEAN : EnableSigchldHandler(succeeds)
    \/ \E succeeds \in BOOLEAN : DisableInternalHandlers(succeeds)

\* ------------------------------------------- the execution context stack

\* Frame::Builtin { name }
Frames == { [name |-> n] : n \in {"a", "b"} }

\* Stack::from(vec) and Stack::default()
InitialStacks == { <<>> } \cup { <<f>> : f \in Frames }

\* StackFrameGuard and EnvFrameGuard
GuardKinds == {"Stack", "Env"}

StackIdle ==
    /\ sInner = <<>>
    /\ sGuards = <<>>
    /\ sInitial = <<>>
    /\ sPanicked = FALSE
    /\ sCalls = 0
    /\ sLast = [op |-> "none", kind |-> "Stack", frame |-> None]

InitStack ==
    /\ sInner \in InitialStacks
    /\ sGuards = <<>>
    /\ sInitial = sInner
    /\ sPanicked = FALSE
    /\ sCalls = 0
    /\ sLast = [op |-> "none", kind |-> "Stack", frame |-> None]

\* Vec::pop
VecPop(v) ==
    IF v = <<>> THEN None
    ELSE Some([frame |-> v[Len(v)], rest |-> SubSeq(v, 1, Len(v) - 1)])

\* self.inner.push(frame)
VecPush(v, frame) == Append(v, frame)

\* Drop for StackFrameGuard and for EnvFrameGuard: inner.pop().unwrap()
GuardDrop(v) ==
    LET p == VecPop(v)
    IN IF p.some
       THEN [panicked |-> FALSE, inner |-> p.value.rest]
       ELSE [panicked |-> TRUE, inner |-> v]

\* pop that lets the guard be dropped when it returns.
GuardPop_NoForget(v) ==
    LET p == VecPop(v)
    IN IF ~p.some
       THEN [panicked |-> TRUE, inner |-> v, frame |-> None]
       ELSE LET d == GuardDrop(p.value.rest)
            IN [panicked |-> d.panicked, inner |-> d.inner,
                frame |-> Some(p.value.frame)]

\* Stack::pop and Env::pop_frame: inner.pop().unwrap(), then the guard is
\* forgotten, so that its drop does not run
GuardPop(v) ==
    LET p == VecPop(v)
    IN IF ~p.some
       THEN [panicked |-> TRUE, inner |-> v, frame |-> None]
       ELSE [panicked |-> FALSE, inner |-> p.value.rest,
             frame |-> Some(p.value.frame)]

\* Stack::push and Env::push_frame. A guard borrows the stack, or the Env,
\* mutably: a push while guards are live goes through the innermost guard,
\* and an EnvFrameGuard is only got from an Env, never from a Stack.
PushFrame(kind, frame) ==
    /\ ~sPanicked
    /\ sCalls < MaxStackCalls
    /\ Len(sGuards) < MaxGuards
    /\ kind = "Env" => \A i \in 1..Len(sGuards) : sGuards[i].kind = "Env"
    /\ sInner' = VecPush(sInner, frame)
    /\ sGuards' = Append(sGuards,
                         [kind |-> kind, frame |-> frame, before |-> sInner])
    /\ sCalls' = sCalls + 1
    /\ sLast' = [op |-> "push", kind |-> kind, frame |-> None]
    /\ UNCHANGED <<sInitial, sPanicked, nonStackVars>>

\* Stack::pop(guard) and Env::pop_frame(guard) on the innermost guard, the
\* only one that is not borrowed
PopFrame ==
    /\ ~sPanicked
    /\ sCalls < MaxStackCalls
    /\ sGuards # <<>>
    /\ LET r == GuardPop(sInner)
       IN /\ sInner' = r.inner
          /\ sPanicked' = r.panicked
          /\ sLast' = [op |-> "pop", kind |-> sGuards[Len(sGuards)].kind,
                       frame |-> r.frame]
    /\ sGuards' = SubSeq(sGuards, 1, Len(sGuards) - 1)
    /\ sCalls' = sCalls + 1
    /\ UNCHANGED <<sInitial, nonStackVars>>

\* The innermost guard goes out of scope.
DropGuard ==
    /\ ~sPanicked
    /\ sCalls < MaxStackCalls
    /\ sGuards # <<>>
    /\ LET r == GuardDrop(sInner)
       IN /\ sInner' = r.inner
          /\ sPanicked' = r.panicked
    /\ sLast' = [op |-> "drop", kind |-> sGuards[Len(sGuards)].kind,
                 frame |-> None]
    /\ sGuards' = SubSeq(sGuards, 1, Len(sGuards) - 1)
    /\ sCalls' = sCalls + 1
    /\ UNCHANGED <<sInitial, nonStackVars>>

NextStack ==
    \/ \E kind \in GuardKinds, frame \in Frames : PushFrame(kind, frame)
    \/ PopFrame
    \/ DropGuard

\* ------------------------------------------------- simple commands
\*
\* SimpleCommand::execute on words that expand without an error. The errors
\* of the expansion and of the assignments go to env.handle and are not
\* modelled.

\* ExitStatus::NOT_FOUND
NOT_FOUND == 127

\* ExitStatus::NOEXEC
NOEXEC == 126

\* The errors execve and the creation of a subshell can fail with.
Errnos == {"ENOENT", "ENOTDIR", "ENOEXEC", "EACCES", "ENOSYS"}

\* The exit statuses a built-in or an external utility can give.
UtilityStatuses == {SUCCESS, 1, NOT_FOUND}

\* What the command search finds for the first field: no target, an
\* external utility, or a built-in or a function with the exit status it
\* will leave and whether it will abort; "Absent" stands for no field at all.
SearchResults ==
    { [target |-> "Absent"], [target |-> "None"], [target |-> "External"] }
    \cup { [target |-> t, exit_status |-> s, abort |-> a] :
             t \in {"Builtin", "Function"}, s \in UtilityStatuses,
             a \in BOOLEAN }

\* run_in_subshell fails with an errno, or gives a subshell.
ForkResults == { Ok(<<>>) } \cup { Err(e) : e \in {"EAGAIN", "ENOENT"} }

\* execve fails with an errno, or the utility runs and exits with a status.
ExecveResults ==
    { Err(e) : e \in Errnos } \cup { Ok(s) : s \in UtilityStatuses }

CmdIdle ==
    /\ cExitStatus = SUCCESS
    /\ cPrinted = 0
    /\ cCalls = 0
    /\ cLast = [target |-> "none"]

InitCmd ==
    /\ cExitStatus \in {SUCCESS, 1}
    /\ cPrinted = 0
    /\ cCalls = 0
    /\ cLast = [target |-> "none"]

\* The exit status on an execve error taking ENOENT alone as not found.
ExecveErrorStatus_OnlyENOENT(errno) ==
    IF errno = "ENOENT" THEN NOT_FOUND ELSE NOEXEC

\* execute_external_utility, in the subshell: the exit status for the errno
\* execve failed with
ExecveErrorStatus(errno) ==
    IF errno \in {"ENOENT", "ENOTDIR"} THEN NOT_FOUND ELSE NOEXEC

\* The exit status the subshell ends with: the utility's when execve
\* replaced the subshell, otherwise the env.exit_status the closure set.
SubshellStatus(execve) ==
    IF execve.ok THEN execve.value ELSE ExecveErrorStatus(execve.error)

\* Env::run_in_subshell: the errno when no subshell could be created,
\* otherwise the exit status the subshell ended with
RunInSubshell(fork, execve) ==
    IF fork.ok THEN Ok(SubshellStatus(execve)) ELSE Err(fork.error)

\* execute_external_utility: the match on the result of run_in_subshell
ExternalStatus(exit_status, result) ==
    IF result.ok THEN result.value ELSE NOEXEC

\* SimpleCommand::execute: the command search, then the execution of the
\* target it found. cPrinted counts the messages of the shell and those of
\* its subshell.
ExecuteSimpleCommand(found, fork, execve) ==
    /\ cCalls < MaxCmdCalls
    /\ cCalls' = cCalls + 1
    /\ IF found.target = "Absent"
       THEN \* execute_absent_target, the assignments succeeding
            /\ UNCHANGED <<cExitStatus, cPrinted>>
            /\ cLast' = [target |-> "Absent", result |-> Ok(<<>>)]
       ELSE IF found.target = "None"
       THEN /\ cExitStatus' = NOT_FOUND
            /\ cPrinted' = cPrinted + 1
            /\ cLast' = [target |-> "None", result |-> Ok(<<>>)]
       ELSE IF found.target \in {"Builtin", "Function"}
       THEN \* execute_builtin and execute_function
            /\ cExitStatus' = found.exit_status
            /\ cPrinted' = cPrinted
            /\ cLast' = [target |-> found.target,
                         result |-> IF found.abort THEN Err("abort")
                                    ELSE Ok(<<>>)]
       ELSE LET result == RunInSubshell(fork, execve)
            IN /\ cExitStatus' = ExternalStatus(cExitStatus, result)
               /\ cPrinted' = IF fork.ok /\ execve.ok THEN cPrinted
                              ELSE cPrinted + 1
               /\ cLast' = [target |-> "External", fork |-> fork,
                            execve |-> IF fork.ok THEN execve
                                       ELSE Err("not called"),
                            result |-> Ok(<<>>)]
    /\ UNCHANGED nonCmdVars

NextCmd ==
    \E found \in SearchResults, fork \in ForkResults,
       execve \in ExecveResults :
        ExecuteSimpleCommand(found, fork, execve)

\* ------------------------------------------------- the kill built-in

\* The operands of kill: process IDs, job IDs and a malformed one.
TargetValues == {"123", "abc", "%my", "%un"}

\* The fields of the operands, each with the place it has on the command line.
RECURSIVE TargetLists(_)
TargetLists(n) ==
    IF n = 0 THEN { <<>> }
    ELSE TargetLists(n - 1)
         \cup { Append(ts, [value |-> v, origin |-> Len(ts) + 1]) :
                  ts \in { t \in TargetLists(n - 1) : Len(t) = n - 1 },
                  v \in TargetValues }

\* What System::kill can return.
KillResults == { Ok(<<>>) } \cup { Err(e) : e \in {"ESRCH", "EPERM"} }

\* crate::Result::default()
ResultDefault == "default"

KillIdle ==
    /\ kTargets = <<>>
    /\ kPc = "idle"
    /\ kSends = <<>>
    /\ kKills = <<>>
    /\ kErrors = <<>>
    /\ kReport = None
    /\ kResult = "none"

InitKill == KillIdle

\* resolve_target in a job set that holds the job-controlled job "my" of
\* process 123 and the job "un" that is not job-controlled
ResolveTarget(target) ==
    CASE target = "%my" -> Ok(0 - 123)
      [] target = "%un" -> Err("Unmonitored")
      [] target = "123" -> Ok(123)
      [] OTHER -> Err("ProcessId")

\* send: resolve_target, then System::kill, each ending send on an error
Send(target, killed) ==
    LET pid == ResolveTarget(target.value)
    IN IF ~pid.ok THEN [result |-> Err(pid.error), kills |-> <<>>]
       ELSE IF ~killed.ok
       THEN [result |-> Err(killed.error), kills |-> <<pid.value>>]
       ELSE [result |-> Ok(<<>>), kills |-> <<pid.value>>]

\* TargetError { target, error }
TargetError(target, error) == [target |-> target, error |-> error]

\* The loop body keeping the latest error only.
PushError_KeepsLast(errors, target, result) ==
    IF result.ok THEN errors
    ELSE << TargetError(target, result.error) >>

\* execute, the body of its loop: an error of send is pushed to errors
PushError(errors, target, result) ==
    IF result.ok THEN errors
    ELSE Append(errors, TargetError(target, result.error))

\* to_single_message: no message for no error, else one message made of
\* all the errors
ToSingleMessage(errors) ==
    IF errors = <<>> THEN None ELSE Some(errors)

\* report_failure: the result of a failed built-in
ReportFailure(message) == "failure"

\* execute is called with its targets.
KillExecute(targets) ==
    /\ kPc = "idle"
    /\ kPc' = "loop"
    /\ kTargets' = targets
    /\ UNCHANGED <<kSends, kKills, kErrors, kReport, kResult, nonKillVars>>

\* One turn of the loop: send for the next target, the system deciding
\* what its kill returns.
KillSend(killed) ==
    /\ kPc = "loop"
    /\ Len(kSends) < Len(kTargets)
    /\ LET target == kTargets[Len(kSends) + 1]
           sent == Send(target, killed)
       IN /\ kSends' = Append(kSends,
                              [target |-> target, result |-> sent.result])
          /\ kKills' = kKills \o sent.kills
          /\ kErrors' = PushError(kErrors, target, sent.result)
    /\ UNCHANGED <<kTargets, kPc, kReport, kResult, nonKillVars>>

\* The loop is over: the errors are reported, if any.
KillFinish ==
    /\ kPc = "loop"
    /\ Len(kSends) = Len(kTargets)
    /\ kPc' = "done"
    /\ LET message == ToSingleMessage(kErrors)
       IN /\ kReport' = message
          /\ kResult' = IF message.some THEN ReportFailure(message.value)
                        ELSE ResultDefault
    /\ UNCHANGED <<kTargets, kSends, kKills, kErrors, nonKillVars>>

NextKill ==
    \/ \E targets \in TargetLists(MaxTargets) : KillExecute(targets)
    \/ \E killed \in KillResults : KillSend(killed)
    \/ KillFinish

\* ------------------------------------------------------ specifications

InitParser == \E src \in Inputs : ParserNew(src)

Init ==
    /\ InitParser /\ RecIdle /\ ExpIdle /\ GlobIdle /\ LexIdle
    /\ RunIdle /\ TrapIdle
    /\ StackIdle
    /\ CmdIdle
    /\ KillIdle

Next == NextParser

\* The parser and its lexer.
Spec == Init /\ [][Next]_vars

\* The combinators finish and Rec::zip on a step f.
InitSpecRec ==
    /\ ParserNew(<<>>) /\ InitRec /\ ExpIdle /\ GlobIdle /\ LexIdle
    /\ RunIdle /\ TrapIdle
    /\ StackIdle
    /\ CmdIdle
    /\ KillIdle

SpecRec == InitSpecRec /\ [][NextRec]_vars

\* finish and zip run to completion: nothing suspends their loops for ever.
FairSpecRec == SpecRec /\ WF_vars(NextRec)

InitSpecExp ==
    /\ ParserNew(<<>>) /\ RecIdle /\ InitExp /\ GlobIdle /\ LexIdle
    /\ RunIdle /\ TrapIdle
    /\ StackIdle
    /\ CmdIdle
    /\ KillIdle

\* An Expansion sink, and an Output on it with its quote guards.
SpecExp == InitSpecExp /\ [][NextExp]_vars

InitSpecGlob ==
    /\ ParserNew(<<>>) /\ RecIdle /\ ExpIdle /\ InitGlob /\ LexIdle
    /\ RunIdle /\ TrapIdle
    /\ StackIdle
    /\ CmdIdle
    /\ KillIdle

\* One call of glob on a field, scanning a directory of the environment.
SpecGlob == InitSpecGlob /\ [][NextGlob]_vars

InitSpecLex ==
    /\ ParserNew(<<>>) /\ RecIdle /\ ExpIdle /\ GlobIdle /\ InitLex
    /\ RunIdle /\ TrapIdle
    /\ StackIdle
    /\ CmdIdle
    /\ KillIdle

\* The character lexer: peek, next and the recognition of operators.
SpecLex == InitSpecLex /\ [][NextLex]_vars

InitSpecRun ==
    /\ ParserNew(<<>>) /\ RecIdle /\ ExpIdle /\ GlobIdle /\ LexIdle
    /\ InitRun /\ TrapIdle
    /\ StackIdle
    /\ CmdIdle
    /\ KillIdle

\* read_eval_loop and interactive_read_eval_loop on an input of command lines.
SpecRun == InitSpecRun /\ [][NextRun]_vars

InitSpecTrap ==
    /\ ParserNew(<<>>) /\ RecIdle /\ ExpIdle /\ GlobIdle /\ LexIdle
    /\ RunIdle /\ InitTrap
    /\ StackIdle
    /\ CmdIdle
    /\ KillIdle

\* A TrapSet and the system it is used with.
SpecTrap == InitSpecTrap /\ [][NextTrap]_vars

InitSpecStack ==
    /\ ParserNew(<<>>) /\ RecIdle /\ ExpIdle /\ GlobIdle /\ LexIdle
    /\ RunIdle /\ TrapIdle
    /\ InitStack
    /\ CmdIdle
    /\ KillIdle

\* A Stack, or the stack of an Env, and the guards of its frames.
SpecStack == InitSpecStack /\ [][NextStack]_vars

InitSpecCmd ==
    /\ ParserNew(<<>>) /\ RecIdle /\ ExpIdle /\ GlobIdle /\ LexIdle
    /\ RunIdle /\ TrapIdle
    /\ StackIdle
    /\ InitCmd
    /\ KillIdle

\* Simple commands executed one after the other in one shell.
SpecCmd == InitSpecCmd /\ [][NextCmd]_vars

InitSpecKill ==
    /\ ParserNew(<<>>) /\ RecIdle /\ ExpIdle /\ GlobIdle /\ LexIdle
    /\ RunIdle /\ TrapIdle
    /\ StackIdle
    /\ CmdIdle
    /\ InitKill

\* One call of execute of the kill built-in on a list of targets.
SpecKill == InitSpecKill /\ [][NextKill]_vars

\* ------------------------------------------------------------ properties

\* C1: here_doc_contents called while the lookahead slot holds a token
\* aborts the program: it returns neither Ok nor Err and changes neither
\* queue nor the lexer position, whatever the unread queue holds.
C1_PendingTokenAborts ==
    [][(last'.op = "here_doc_contents" /\ token.some)
         => /\ last'.result = "Panic"
            /\ panicked'
            /\ read_here_docs' = read_here_docs
            /\ index' = index]_vars

C1_Witness ==
    /\ panicked
    /\ last.op = "here_doc_contents"
    /\ token.some
    /\ unread_here_docs # <<>>

\* The input a list of resolved here-documents stands for: each content
\* followed by its delimiter line.
RECURSIVE Resolved(_)
Resolved(docs) ==
    IF docs = <<>> THEN <<>>
    ELSE Head(docs).content \o Head(docs).delimiter.text \o <<NL>>
         \o Resolved(Tail(docs))

\* Whether text is one of the lines of content.
HasLine(content, text) ==
    \E j \in 1..Len(content) :
        /\ j = 1 \/ content[j - 1] = NL
        /\ j + Len(text) <= Len(content)
        /\ SubSeq(content, j, j + Len(text) - 1) = text
        /\ content[j + Len(text)] = NL

\* C2: a successful here_doc_contents appends one HereDoc per queued partial
\* here-document, in queue order, the i-th with the i-th delimiter and flag
\* and the i-th content block of the input, and leaves the unread queue empty.
C2_ResolvesInOrder ==
    [][(last'.op = "here_doc_contents" /\ last'.result = "Ok")
         => LET n == Len(unread_here_docs)
                m == Len(read_here_docs)
                new == SubSeq(read_here_docs', m + 1, m + n)
            IN /\ Len(read_here_docs') = m + n
               /\ SubSeq(read_here_docs', 1, m) = read_here_docs
               /\ \A i \in 1..n :
                    /\ new[i].delimiter = unread_here_docs[i].delimiter
                    /\ new[i].remove_tabs = unread_here_docs[i].remove_tabs
                    /\ new[i].id = unread_here_docs[i].id
                    /\ ~HasLine(new[i].content, new[i].delimiter.text)
               /\ SubSeq(input, index, index' - 1) = Resolved(new)
               /\ unread_here_docs' = <<>>]_vars

C2_Witness ==
    /\ last.op = "here_doc_contents"
    /\ last.result = "Ok"
    /\ Len(read_here_docs) = 2
    /\ read_here_docs[1].id = 1
    /\ read_here_docs[1].delimiter # read_here_docs[2].delimiter
    /\ Len(read_here_docs[1].content) # Len(read_here_docs[2].content)

\* C3: ensure_no_unread_here_doc returns Ok exactly when the unread queue is
\* empty, otherwise MissingHereDocContent at the location of the delimiter
\* of the first entry; it changes neither the slot nor the queues.
C3_EnsureNoUnread ==
    [][(last'.op = "ensure_no_unread_here_doc")
         => /\ last'.value.ok <=> (unread_here_docs = <<>>)
            /\ unread_here_docs # <<>> =>
                  last'.value =
                      Err([cause |-> "MissingHereDocContent",
                           location |-> Head(unread_here_docs).delimiter.location])
            /\ UNCHANGED <<token, unread_here_docs, read_here_docs, index>>]_vars

C3_Witness ==
    /\ last.op = "ensure_no_unread_here_doc"
    /\ last.result = "Err"
    /\ Len(unread_here_docs) = 2
    /\ unread_here_docs[1].delimiter.location
          # unread_here_docs[2].delimiter.location

\* C4: a failing here_doc_contents commits nothing: the read queue is what
\* it was before the call.
C4_NoPartialCommit ==
    [][(last'.op = "here_doc_contents" /\ last'.result = "Err")
         => read_here_docs' = read_here_docs]_vars

\* C5: take_read_here_docs returns the read queue and empties it: no
\* HereDoc is returned by two takes, and a take right after a take returns
\* an empty list.
C5_TakeDrains ==
    [][(last'.op = "take_read_here_docs")
         => /\ last'.value = read_here_docs
            /\ read_here_docs' = <<>>
            /\ Ids(last'.value) \cap takenIds = {}
            /\ last.op = "take_read_here_docs" => last'.value = <<>>]_vars

C5_Witness ==
    /\ last.op = "take_read_here_docs"
    /\ Ids(last.value) = {2}
    /\ takenIds = {1, 2}

\* C6: here_doc_contents with an empty slot and an empty unread queue
\* returns Ok and changes neither the read queue nor the lexer position.
C6_NoHereDocNoOp ==
    [][(last'.op = "here_doc_contents" /\ ~token.some
          /\ unread_here_docs = <<>>)
         => /\ last'.result = "Ok"
            /\ ~panicked'
            /\ read_here_docs' = read_here_docs
            /\ index' = index
            /\ Location(index') = Location(index)]_vars

C6_Witness ==
    /\ last.op = "here_doc_contents"
    /\ last.result = "Ok"
    /\ nextId = 1
    /\ read_here_docs = <<>>
    /\ input # <<>>
    /\ Location(index) = [line |-> 1, column |-> 1]

\* C7: the lexer is asked for a token exactly when the slot is empty; with
\* a token in the slot peek_token and take_token return that token and
\* leave the lexer alone; peek_token leaves the token it returns in the
\* slot and take_token leaves the slot empty.
C7_OneTokenLookahead ==
    [][(last'.op \in {"peek_token", "take_token"})
         => /\ last'.requests = IF token.some THEN 0 ELSE 1
            /\ token.some => (last'.value = token.value /\ index' = index)
            /\ last'.op = "peek_token" =>
                  (token'.some /\ token'.value = last'.value)
            /\ last'.op = "take_token" => ~token'.some]_vars

C7_Witness ==
    /\ last.op = "take_token"
    /\ last.requests = 0
    /\ last.result = "Ok"
    /\ last.value.value.id = "Word"
    /\ ~token.some

\* C8: finish returns Ok(t) after exactly one call of f more than the number
\* of leading AliasSubstituted results, when f then returns Empty(t) or
\* NonEmpty(t), and never calls f again.
C8_FinishTerminates ==
    /\ (recOp = "finish" /\ fFinal.ok)
          ~> (/\ recOp = "finish"
              /\ recPc = "done"
              /\ fFinal.ok
              /\ recResult = Ok(fFinal.value.value)
              /\ fCalls = fAlias + 1)
    /\ []((recOp = "finish" /\ fFinal.ok) => fCalls <= fAlias + 1)

C8_Witness ==
    /\ recOp = "finish"
    /\ fFinal.ok
    /\ fFinal.value.tag = "Empty"
    /\ fAlias = MaxAlias
    /\ recPc = "done"
    /\ fCalls = MaxAlias + 1

\* C9: zip on AliasSubstituted returns Ok(AliasSubstituted) without a call
\* of f.
C9_ZipAliasSubstituted ==
    (recOp = "zip" /\ zipSelf = AliasSubstituted /\ recPc # "run")
        => /\ recPc = "done"
           /\ recResult = Ok(AliasSubstituted)
           /\ fCalls = 0

C9_Witness ==
    /\ recOp = "zip"
    /\ zipSelf = AliasSubstituted
    /\ recPc = "done"
    /\ fFinal.ok

\* C10: zip on Empty(t) calls f once and takes the consumption of its
\* result: Empty(u) gives Empty((t, u)), NonEmpty(u) gives NonEmpty((t, u)),
\* AliasSubstituted gives AliasSubstituted.
C10_ZipEmpty ==
    (recOp = "zip" /\ zipSelf.tag = "Empty" /\ recPc # "run")
        => /\ recPc = "done"
           /\ fCalls = 1
           /\ fAlias > 0 => recResult = Ok(AliasSubstituted)
           /\ (fAlias = 0 /\ fFinal.ok) =>
                 recResult = Ok([tag |-> fFinal.value.tag,
                                 value |-> <<zipSelf.value, fFinal.value.value>>])
           /\ (fAlias = 0 /\ ~fFinal.ok) => recResult = fFinal

C10_Witness ==
    /\ recOp = "zip"
    /\ zipSelf.tag = "Empty"
    /\ recPc = "done"
    /\ fAlias = 0
    /\ fFinal.ok
    /\ fFinal.value.tag = "Empty"

\* C11: zip on NonEmpty(t) calls f until its result is not AliasSubstituted
\* and returns NonEmpty((t, u)) for Empty(u) as for NonEmpty(u); what it
\* returns is never AliasSubstituted and never Empty.
C11_ZipNonEmpty ==
    /\ (recOp = "zip" /\ zipSelf.tag = "NonEmpty" /\ fFinal.ok)
          ~> (/\ recOp = "zip"
              /\ zipSelf.tag = "NonEmpty"
              /\ recPc = "done"
              /\ fFinal.ok
              /\ recResult = Ok(NonEmpty(<<zipSelf.value, fFinal.value.value>>))
              /\ fCalls = fAlias + 1)
    /\ []((recOp = "zip" /\ zipSelf.tag = "NonEmpty" /\ recPc = "done")
            => /\ fCalls = fAlias + 1
               /\ recResult.ok => recResult.value.tag = "NonEmpty"
               /\ ~fFinal.ok => recResult = fFinal)

C11_Witness ==
    /\ recOp = "zip"
    /\ zipSelf.tag = "NonEmpty"
    /\ recPc = "done"
    /\ fAlias = MaxAlias
    /\ fFinal.ok
    /\ fFinal.value.tag = "Empty"
    /\ recResult.ok
    /\ recResult.value.tag = "NonEmpty"

\* C12: begin_quote saves the flag and sets it; each release of a guard, by
\* end_quote or by drop, restores the flag saved by the matching
\* begin_quote, so the flag is true exactly while a guard is live: releasing
\* an inner guard leaves it true and releasing the outermost one gives the
\* value before the first begin_quote.
C12_QuoteScopesRestore ==
    [][/\ outputLive' => (is_quoted' <=> guards' # <<>>)
       /\ Len(guards') > Len(guards) =>
             /\ is_quoted'
             /\ guards'[Len(guards')].was_quoted = is_quoted
       /\ Len(guards') < Len(guards) =>
             /\ is_quoted' = guards[Len(guards)].was_quoted
             /\ guards' # <<>> => is_quoted'
             /\ guards' = <<>> => is_quoted' = guards[1].was_quoted]_vars

C12_Witness ==
    /\ expLast.op \in {"end_quote", "drop_guard"}
    /\ Len(guards) = 1
    /\ is_quoted

\* The characters of the sink in the order they were pushed.
RECURSIVE Flatten(_)
Flatten(fields) ==
    IF fields = <<>> THEN <<>> ELSE Head(fields) \o Flatten(Tail(fields))

Flat == IF sinkKind = "field" THEN inner ELSE Flatten(inner)

\* C13: a character pushed while a quote guard is live, or pushed with
\* is_quoted = true, is stored with is_quoted = true, by push_char and by
\* push_str.
C13_QuotedWhileInScope ==
    /\ Len(Flat) = Len(pushLog)
    /\ \A i \in 1..Len(pushLog) :
          (pushLog[i].depth > 0 \/ pushLog[i].asked) => Flat[i].is_quoted

C13_Witness ==
    /\ Len(pushLog) = 3
    /\ \A i \in 1..3 :
          pushLog[i].depth > 0 /\ ~pushLog[i].asked /\ Flat[i].is_quoted
    /\ \E i \in 1..3 : Flat[i].value = "Y"
    /\ \E i \in 1..3 : Flat[i].value = "z"

\* C14, as stated: push_char on the multi-field sink never changes the
\* number of fields; only the start of a new field does.
C14_PushCharKeepsFieldCount ==
    [][sinkKind = "fields" =>
          /\ expLast'.op = "push_char" => Len(inner') = Len(inner)
          /\ Len(inner') > Len(inner) => expLast'.op = "start_new_field"]_vars

\* C14, amended: push_char on the multi-field sink appends the character to
\* the last field and keeps the number of fields when there is a field; on
\* a sink with no field it opens the first field, holding that character.
C14_PushCharAppendsToLast ==
    [][(sinkKind = "fields" /\ expLast'.op = "push_char") =>
          LET c == expLast'.pushed[1]
          IN IF inner = <<>>
             THEN inner' = << <<c>> >>
             ELSE /\ Len(inner') = Len(inner)
                  /\ \A i \in 1..(Len(inner) - 1) : inner'[i] = inner[i]
                  /\ inner'[Len(inner)] = Append(inner[Len(inner)], c)]_vars

C14_Witness ==
    /\ sinkKind = "fields"
    /\ expLast.op = "push_char"
    /\ Len(inner) = 2
    /\ Len(inner[1]) = 1
    /\ Len(inner[2]) = 2

\* The text of a field: the values of its characters, in order.
FieldText(chars) == [i \in 1..Len(chars) |-> chars[i].value]

\* The text of a field without its is_quoting characters.
RECURSIVE UnquotedText(_)
UnquotedText(chars) ==
    IF chars = <<>> THEN <<>>
    ELSE (IF Head(chars).is_quoting THEN <<>> ELSE <<Head(chars).value>>)
            \o UnquotedText(Tail(chars))

\* Every pattern metacharacter of the field is quoted or comes from a hard
\* expansion.
MetacharsProtected(field) ==
    \A i \in 1..Len(field.chars) :
        field.chars[i].value \in {"*", "?", "["} =>
            \/ field.chars[i].is_quoted
            \/ field.chars[i].origin = "HardExpansion"

\* The pattern of the field compiles and has no wildcard element.
PurelyLiteral(field) ==
    LET pattern == ToPattern(field)
    IN /\ pattern.some
       /\ \A i \in 1..Len(pattern.value) : pattern.value[i].kind = "Char"

\* The pattern of the field compiles and has a wildcard element.
HasWildcard(field) ==
    LET pattern == ToPattern(field)
    IN /\ pattern.some
       /\ \E i \in 1..Len(pattern.value) : pattern.value[i].kind # "Char"

\* The names of the directory that match the pattern of the field.
MatchingNames(field) ==
    { gDir[k] : k \in { i \in 1..Len(gDir) :
                          IsMatch(ToPattern(field).value, gDir[i]) } }

\* C15: a field whose only pattern metacharacters are quoted or come from a
\* hard expansion yields exactly one field, its literal text, whatever
\* entries the directory holds: those characters are never a wildcard.
C15_ProtectedCharsAreLiteral ==
    (gPc # "idle" /\ MetacharsProtected(gField.value)) =>
        /\ gPc = "done"
        /\ Len(gResult) = 1
        /\ gResult[1].value = UnquotedText(gField.value.chars)

C15_Witness ==
    /\ gPc = "done"
    /\ gField.value.chars = << Plain("a"), Plain("."), Hard("*") >>
    /\ \E i \in 1..Len(gDir) : gDir[i] = <<"a", ".", "b">>
    /\ gResult = << Field(<<"a", ".", "*">>, gField.value.origin) >>

\* C16: when the compiled pattern has no wildcard element, glob yields
\* exactly one field, whose value is the field's characters without the
\* is_quoting ones and whose origin is the field's origin, and it calls
\* neither opendir nor dir.next.
C16_LiteralPatternNoScan ==
    (gPc # "idle" /\ PurelyLiteral(gField.value)) =>
        /\ gPc = "done"
        /\ gResult = << Field(UnquotedText(gField.value.chars),
                              gField.value.origin) >>
        /\ gDirCalls = 0
        /\ gIdx = 0

C16_Witness ==
    /\ gPc = "done"
    /\ gField.value = [chars |-> << Quoting, Quoted("*"), Quoting >>,
                       origin |-> "L2"]
    /\ gDir # <<>>
    /\ gResult = << Field(<<"*">>, "L2") >>
    /\ gDirCalls = 0

\* C17: when the pattern has a wildcard element and entries match, glob
\* yields exactly the matching names, each once, in ascending order of
\* their byte values, each with the origin of the field; the field itself
\* is among them only if it is a matching name.
C17_MatchesSorted ==
    (gPc = "done" /\ HasWildcard(gField.value)
                  /\ MatchingNames(gField.value) # {}) =>
        /\ Len(gResult) = Cardinality(MatchingNames(gField.value))
        /\ { gResult[i].value : i \in 1..Len(gResult) }
              = MatchingNames(gField.value)
        /\ \A i \in 1..Len(gResult) :
              gResult[i].origin = gField.value.origin
        /\ \A i \in 1..(Len(gResult) - 1) :
              StrLess(gResult[i].value, gResult[i + 1].value)
        /\ \A i \in 1..Len(gResult) :
              gResult[i].value = UnquotedText(gField.value.chars) =>
                  \E k \in 1..Len(gDir) : gDir[k] = gResult[i].value

C17_Witness ==
    /\ gPc = "done"
    /\ gField.value = [chars |-> << Plain("a"), Plain("."), Plain("*") >>,
                       origin |-> "L2"]
    /\ gDir = << <<"a", ".", "c">>, <<"a", ".", "b">> >>
    /\ gResult = << Field(<<"a", ".", "b">>, "L2"),
                    Field(<<"a", ".", "c">>, "L2") >>

\* C18: when the pattern has a wildcard element and the scan ends with no
\* matching entry, glob yields exactly one field, the input field without
\* its quoting; no match does not make glob fail.
C18_NoMatchFallsBack ==
    /\ (gPc = "done" /\ HasWildcard(gField.value)
                     /\ MatchingNames(gField.value) = {}) =>
           gResult = << Field(UnquotedText(gField.value.chars),
                              gField.value.origin) >>
    /\ gPc = "panicked" => gErr # "none"

C18_Witness ==
    /\ gPc = "done"
    /\ gField.value.chars = << Quoting, Quoted("a"), Quoting, Plain("*") >>
    /\ gDir = << <<".", "b">> >>
    /\ gIdx = 1
    /\ gResult = << Field(<<"a", "*">>, gField.value.origin) >>

\* C19, as stated: when the pattern of a field does not compile, glob
\* fails in no way and yields the field unchanged as its single result:
\* the text yielded is the text of the field, is_quoting characters
\* included.
C19_InvalidPatternUnchanged ==
    (gPc # "idle" /\ ~ToPattern(gField.value).some) =>
        /\ gPc = "done"
        /\ gResult = << Field(FieldText(gField.value.chars),
                              gField.value.origin) >>

\* C19, amended: when the pattern of a field does not compile, glob fails
\* in no way and yields a single field, the field without its is_quoting
\* characters and with its origin; the text yielded is the text of the
\* field when the field has no is_quoting character.
C19_InvalidPatternUnquoted ==
    (gPc # "idle" /\ ~ToPattern(gField.value).some) =>
        /\ gPc = "done"
        /\ gResult = << Field(UnquotedText(gField.value.chars),
                              gField.value.origin) >>
        /\ (\A i \in 1..Len(gField.value.chars) :
               ~gField.value.chars[i].is_quoting) =>
              gResult[1].value = FieldText(gField.value.chars)

C19_Witness ==
    /\ gPc = "done"
    /\ gField.value.chars = << Quoting, Quoted("a"), Quoting, Plain("[") >>
    /\ gResult = << Field(<<"a", "[">>, gField.value.origin) >>

\* C20: a failure of opendir or of dir.next does not abort glob: glob
\* returns, yielding the literal text of the field.
C20_ScanFailuresSwallowed ==
    /\ gPc # "panicked"
    /\ (gPc = "done" /\ gErr # "none") =>
           gResult = << Field(UnquotedText(gField.value.chars),
                              gField.value.origin) >>

\* The text from position start on: the buffer and what the producer has
\* not yielded yet.
TextFrom(start) ==
    LET text == lx.source \o Flatten(lx.lines)
    IN SubSeq(text, start, Len(text))

IsPrefix(p, t) == Len(p) <= Len(t) /\ SubSeq(t, 1, Len(p)) = p

\* The operators and their texts.
OperatorTexts ==
    { [text |-> <<"<", "<">>, op |-> "LessLess"],
      [text |-> <<"<", "<", "-">>, op |-> "LessLessDash"] }

AtEnd(l) == l.latch.some /\ l.index > Len(l.source)

\* C22: the error that peek or next returns is latched; from then on no
\* call changes the lexer or asks the producer again, and every peek and
\* next returns the latched error.
C22_EndOfInputSticky ==
    [][/\ (lxLast'.op \in {"peek", "next"} /\ ~lxLast'.result.ok) =>
             /\ AtEnd(lx')
             /\ lx'.latch = Some(lxLast'.result.error)
       /\ AtEnd(lx) =>
             /\ lx' = lx
             /\ lxLast'.op \in {"peek", "next"} =>
                   lxLast'.result = Err(lx.latch.value)]_vars

C22_Witness ==
    /\ lxLast.op = "peek"
    /\ ~lxLast.result.ok
    /\ lxLast.prev = [op |-> "next", ok |-> FALSE]
    /\ lx.source # <<>>
    /\ lx.reads = 2

\* C23: peek leaves the position unchanged, and a peek right after a peek
\* returns the same result and changes nothing in the lexer, also when the
\* first of them fetched a chunk from the producer.
C23_PeekIdempotent ==
    [][/\ lxLast'.op = "peek" => lx'.index = lx.index
       /\ (lxLast.op = "peek" /\ lxLast'.op = "peek") =>
             /\ lxLast'.result = lxLast.result
             /\ lx' = lx]_vars

C23_Witness ==
    /\ lxLast.op = "peek"
    /\ lxLast.prev = [op |-> "peek", ok |-> TRUE]
    /\ lxLast.result.ok
    /\ lxCalls = 2
    /\ lx.reads = 1

LastEvent == rLog[Len(rLog)]

IsInterrupt(result) ==
    result.tag = "Break" /\ result.divert.kind = "Interrupt"

\* The exit status after the loop has dealt with what run_command did.
StatusAfter(e) ==
    IF rInteractive /\ IsInterrupt(e.result) /\ e.result.divert.exit_status.some
    THEN e.result.divert.exit_status.value
    ELSE e.status

\* C24: when the input holds no commands, the loop leaves the exit status
\* at zero whatever it was before; otherwise read_eval_loop leaves the exit
\* status the last executed command left.
C24_ExitStatusOfLoop ==
    rPc = "returned" /\ rLog # <<>> =>
        /\ (rResult = Some(Continue) /\ Len(rLog) = 1) =>
              rExitStatus = SUCCESS
        /\ (~rInteractive /\ rResult = Some(Continue) /\ Len(rLog) > 1) =>
              /\ rLog[Len(rLog) - 1].ev = "execute"
              /\ rExitStatus = rLog[Len(rLog) - 1].status
        /\ (~rInteractive /\ LastEvent.ev = "execute") =>
              rExitStatus = LastEvent.status

C24_Witness ==
    /\ ~rInteractive
    /\ rPc = "returned"
    /\ rResult = Some(Continue)
    /\ Len(rLog) = 7
    /\ rLog[1].status = SUCCESS
    /\ rLog[3].status = SUCCESS
    /\ rLog[6].status = 7
    /\ rExitStatus = 7

\* C25: the loop parses command line k+1 only after it has run command
\* line k to its end, and the parse of line k+1 sees the exit status that
\* line k left.
C25_ExecutesBeforeNextParse ==
    \A i \in 1..Len(rLog) :
        rLog[i].ev = "parse" =>
            IF i = 1 THEN rLog[i].line = 1
            ELSE /\ rLog[i - 1].ev \in {"traps", "execute"}
                 /\ rLog[i - 1].ev = "traps" => rLog[i - 1].result.tag = "Break"
                 /\ rLog[i - 1].line = rLog[i].line - 1
                 /\ rLog[i].status = StatusAfter(rLog[i - 1])

C25_Witness ==
    /\ Len(rLog) >= 4
    /\ rLog[1].status = SUCCESS
    /\ rLog[3].ev = "execute"
    /\ rLog[3].status = 7
    /\ rLog[4] = Event("parse", 2, "Some", 7)

\* C26: in interactive mode the loop continues after a command line with a
\* syntax error: it goes on to parse the following command lines and does
\* not return.
C26_InteractiveContinuesAfterSyntaxError ==
    [][(/\ rInteractive
        /\ rPc = "parse"
        /\ rLines # <<>>
        /\ Head(rLines) = "syntax_error") =>
           rPc' = "parse" /\ rResult' = None]_vars

\* C27: in interactive mode a command that results in
\* Break(Interrupt(s)) does not end the loop: the exit status becomes s
\* when s is present and the loop goes on to parse the next line; any
\* other divert ends the loop with that Break, and nothing is parsed or
\* executed once the loop has returned.
C27_InteractiveInterrupt ==
    [][/\ (rInteractive /\ rPc = "execute") =>
             LET e == rLog'[Len(rLog')]
             IN IF IsInterrupt(e.result)
                THEN /\ rPc' = "parse"
                     /\ rResult' = None
                     /\ rExitStatus' =
                           IF e.result.divert.exit_status.some
                           THEN e.result.divert.exit_status.value
                           ELSE e.status
                ELSE e.result.tag = "Break" =>
                        rPc' = "returned" /\ rResult' = Some(e.result)
       /\ rInteractive => rPc # "returned"]_vars

C27_Witness ==
    /\ rInteractive
    /\ Len(rLog) = 6
    /\ rLog[3].ev = "execute"
    /\ rLog[3].result = Break(Interrupt(Some(ERROR)))
    /\ rLog[4].status = ERROR
    /\ rLog[6].ev = "execute"

\* C28: the non-interactive loop ends at the first syntax error, with
\* Break(Interrupt(Some(ERROR))), and at the first command whose run
\* results in a Break, with that Break; once it has returned, no command
\* line is parsed or executed.
C28_NonInteractiveEnds ==
    [][~rInteractive =>
          /\ (rPc = "parse" /\ rLines # <<>>
                            /\ Head(rLines) = "syntax_error") =>
                /\ rPc' = "returned"
                /\ rResult' = Some(Break(Interrupt(Some(ERROR))))
          /\ (rPc \in {"traps", "execute"}
                 /\ rLog'[Len(rLog')].result.tag = "Break") =>
                /\ rPc' = "returned"
                /\ rResult' = Some(rLog'[Len(rLog')].result)
          /\ rPc # "returned"]_vars

C28_Witness ==
    /\ ~rInteractive
    /\ rPc = "returned"
    /\ rLog = << Event("parse", 1, "Err", rExitStatus) >>
    /\ rResult = Some(Break(Interrupt(Some(ERROR))))
    /\ rLines = << "command" >>

\* C29: every command line that is parsed has the traps run after its
\* parse and before its execution; a command line is executed only after
\* the traps ran without a Break, and not at all when they resulted in one.
C29_TrapsBetweenParseAndExecute ==
    \A i \in 1..Len(rLog) :
        /\ rLog[i].ev = "execute" =>
              /\ i >= 3
              /\ rLog[i - 1] =
                    Event("traps", rLog[i].line, Continue, rLog[i - 1].status)
              /\ rLog[i - 2] =
                    Event("parse", rLog[i].line, "Some", rLog[i - 2].status)
        /\ (rLog[i].ev = "parse" /\ rLog[i].result = "Some") =>
              IF i = Len(rLog) THEN rPc = "traps"
              ELSE rLog[i + 1].ev = "traps" /\ rLog[i + 1].line = rLog[i].line
        /\ (rLog[i].ev = "traps" /\ rLog[i].result.tag = "Break"
                                 /\ i < Len(rLog)) =>
              rLog[i + 1].ev = "parse"

C29_Witness ==
    /\ Len(rLog) = 5
    /\ rLog[2].ev = "traps"
    /\ rLog[2].result = Break(Interrupt(None))
    /\ rLog[3].ev = "parse"
    /\ rLog[4].ev = "traps"
    /\ rLog[5].ev = "execute"

C35_UnreadQueueEmptiedOnReturn ==
    [][/\ (last'.op = "here_doc_contents" /\ last'.result \in {"Ok", "Err"})
            => unread_here_docs' = <<>>
       /\ (/\ last.op = "here_doc_contents"
           /\ last.result \in {"Ok", "Err"}
           /\ last'.op = "ensure_no_unread_here_doc")
            => last'.result = "Ok"
       /\ (/\ last.op = "here_doc_contents"
           /\ last.result \in {"Ok", "Err"}
           /\ last'.op = "here_doc_contents")
            => /\ last'.result = "Ok"
               /\ read_here_docs' = read_here_docs
               /\ index' = index]_vars

C35_Witness ==
    /\ last.op = "ensure_no_unread_here_doc"
    /\ last.result = "Ok"
    /\ nextId = 3
    /\ unread_here_docs = <<>>
    /\ read_here_docs = <<>>
    /\ takenIds = {}

\* The number of Fields the iterator of a returned glob has to yield: one
\* when the pattern does not compile, is purely literal or matches no entry,
\* otherwise the number of matching entries.
C36_Expected ==
    IF HasWildcard(gField.value) /\ MatchingNames(gField.value) # {}
    THEN Cardinality(MatchingNames(gField.value))
    ELSE 1

\* C36: whenever glob returns, the first calls of next, as many as
\* C36_Expected and at least one, yield the Fields of the expansion in
\* order, and every later call gives None: after a None comes only None.
C36_YieldsFiniteNonEmpty ==
    gPc = "done" =>
        /\ C36_Expected >= 1
        /\ \A i \in 1..Len(gNext) :
              IF i <= C36_Expected
              THEN /\ i <= Len(gResult)
                   /\ gNext[i] = Some(gResult[i])
              ELSE gNext[i] = None
        /\ \A i, j \in 1..Len(gNext) :
              (i < j /\ ~gNext[i].some) => ~gNext[j].some

\* Two matching entries: two Fields, then None twice.
C36_Witness ==
    /\ gPc = "done"
    /\ gInner.kind = "Many"
    /\ Len(gDir) = 2
    /\ Len(gNext) = 4
    /\ Len(gResult) = 2
    /\ gNext[1] = Some(gResult[1])
    /\ gNext[2] = Some(gResult[2])
    /\ gNext[3] = None
    /\ gNext[4] = None

\* C32: the release of a guard, by drop or by pop, leaves the stack as it
\* was before the push of that guard and removes exactly one frame; a pop
\* returns the frame the guard pushed; and the depth of the stack is always
\* the initial depth plus the number of live guards.
C32_GuardsMatchPushAndPop ==
    [][/\ sLast'.op \in {"pop", "drop"} =>
            /\ sInner' = sGuards[Len(sGuards)].before
            /\ Len(sInner') = Len(sInner) - 1
            /\ sGuards' = SubSeq(sGuards, 1, Len(sGuards) - 1)
       /\ sLast'.op = "pop" =>
            sLast'.frame = Some(sGuards[Len(sGuards)].frame)
       /\ ~sPanicked'
       /\ Len(sInner') = Len(sInitial) + Len(sGuards')]_vars

\* A StackFrameGuard nested in an EnvFrameGuard on a non-empty stack was
\* released by pop, which returned its frame and left the outer frame.
C32_Witness ==
    /\ sLast.op = "pop"
    /\ sLast.kind = "Stack"
    /\ sInitial # <<>>
    /\ Len(sGuards) = 1
    /\ sGuards[1].kind = "Env"
    /\ sInner = Append(sInitial, sGuards[1].frame)
    /\ sLast.frame # Some(sGuards[1].frame)

\* C33: a simple command whose target cannot be run ends with Ok and with
\* exit status NOT_FOUND when the search found no target or execve failed
\* with ENOENT or ENOTDIR, and with NOEXEC when execve failed with another
\* error or the subshell could not be created.
C33_UnrunnableTargetStatus ==
    /\ cLast.target = "None" =>
          cLast.result = Ok(<<>>) /\ cExitStatus = NOT_FOUND
    /\ cLast.target = "External" =>
          /\ cLast.result = Ok(<<>>)
          /\ ~cLast.fork.ok => cExitStatus = NOEXEC
          /\ (cLast.fork.ok /\ ~cLast.execve.ok) =>
                cExitStatus = IF cLast.execve.error \in {"ENOENT", "ENOTDIR"}
                              THEN NOT_FOUND ELSE NOEXEC

\* execve failed with ENOTDIR in the third command of the shell.
C33_Witness ==
    /\ cCalls = 3
    /\ cLast.target = "External"
    /\ cLast.fork.ok
    /\ cLast.execve = Err("ENOTDIR")
    /\ cLast.result = Ok(<<>>)
    /\ cExitStatus = NOT_FOUND
    /\ cPrinted = 1

\* The places of the targets for which send failed.
C34_Failed == { i \in 1..Len(kSends) : ~kSends[i].result.ok }

\* C34: execute calls send for the targets in order, whatever the earlier
\* calls returned; when it ends it has called send for every target, its
\* report holds one error per failed target, in order, each with its target,
\* and its result is the default one exactly when no send failed.
C34_SendsAllReportsAll ==
    /\ \A i \in 1..Len(kSends) :
          i <= Len(kTargets) /\ kSends[i].target = kTargets[i]
    /\ kPc = "done" =>
          /\ Len(kSends) = Len(kTargets)
          /\ (kResult = ResultDefault) <=> (C34_Failed = {})
          /\ kReport.some <=> (C34_Failed # {})
          /\ kReport.some =>
                /\ Len(kReport.value) = Cardinality(C34_Failed)
                /\ \A i \in C34_Failed :
                      \E k \in 1..Len(kReport.value) :
                          /\ kReport.value[k].target = kTargets[i]
                          /\ kReport.value[k].error = kSends[i].result.error
                /\ \A k \in 1..(Len(kReport.value) - 1) :
                      kReport.value[k].target.origin
                          < kReport.value[k + 1].target.origin

\* send failed for the first target and the second was signalled all the same.
C34_Witness ==
    /\ kPc = "done"
    /\ Len(kTargets) = 2
    /\ kSends[1].result = Err("ProcessId")
    /\ kSends[2].result = Ok(<<>>)
    /\ kKills = << 0 - 123 >>
    /\ kReport = Some(<< TargetError(kTargets[1], "ProcessId") >>)
    /\ kResult = "failure"

====
